---------------------------- MODULE Spec2Model ----------------------------
(***************************************************************************)
(* A model of the core of wiki_utils.py: the chunked execution of          *)
(* doChunks (lines 51-107), the rate-limit retry of reqWDQS (lines         *)
(* 140-205), the title resolution of normalizedTitle (lines 1997-2035),    *)
(* the continuation loop of the MediaWiki workers (lines 2264-3073) and    *)
(* of m_RedirectsDF (lines 2408-2512), the checks of checkEntities (lines  *)
(* 111-130) and checkTitles (lines 2038-2060) with the chunked requests of *)
(* the functions that call them, and the retry of reqMediaWiki (lines      *)
(* 1925-1993).                                                             *)
(*                                                                         *)
(* Python values are modelled as tagged records: None, a dict (a function  *)
(* from keys to values), a Pandas table (its sequence of rows) and a       *)
(* 2-tuple.  A local name that has not been assigned yet is Unbound.       *)
(* The debug messages of doChunks (lines 72-74, 82-87, 105-106) only print *)
(* and are left out.                                                       *)
(***************************************************************************)
EXTENDS Integers, Sequences, FiniteSets, TLC

(***************************************************************************)
(* Bounds of the model.                                                    *)
(***************************************************************************)
\* Number of distinct work items (entity ids / titles) a list is drawn from.
NumItems == 3
\* Longest list x handed to doChunks.
MaxLen == 3
\* Chunk sizes are drawn from -MaxChunk .. MaxChunk.
MaxChunk == 3
\* Most requests one call of reqWDQS is followed through.
MaxRequests == 3
\* Clock ticks per second: the clock is finer than the whole seconds
\* int(time()) yields.
TicksPerSec == 2

Items == 1..NumItems
\* A value no item has: "the worker never fails".
NoItem == 0

VARIABLES
  \* ---- doChunks(f, x, chunksize) ----
  x,          \* the list argument
  chunksize,  \* the chunksize argument
  shape,      \* what the worker f returns: "dict", "table", "tuple_dict", "tuple_table"
  mode,       \* "item": f's record for an item depends on the item only;
              \* "batch": it depends on the batch the item was sent in
  poison,     \* f returns None for a batch holding this item (NoItem: never)
  pc,         \* "start", "loop", "ret", "done", or "idle"
  nlim,       \* local nlim
  k,          \* loop variable k
  output,     \* local output (Unbound until the first batch is merged)
  calls,      \* history: the batches f was invoked with, in order
  outcome,    \* "running", "returned", "raised"
  retval,     \* the value returned (when outcome = "returned")
  error,      \* the exception raised (when outcome = "raised")
  \* ---- reqWDQS(sparql_query, method, format) ----
  format,     \* the format argument
  method,     \* the method argument
  wpc,        \* "start", "send", "response", "done", or "idle"
  clock,      \* the time, in ticks
  requests,   \* history: the requests sent, each with the tick it was sent at
  resp,       \* local response: the last response received
  backoffs,   \* history: one entry per 429 response whose wait was computed
  woutcome,   \* "running", "returned", "raised"
  wret,       \* the value returned
  werror,     \* the exception raised
  wmsg,       \* the values the exception's message names
  \* ---- normalizedTitle(title, q) ----
  ntitle,     \* the title argument
  nq,         \* the q argument: the 'query' part of a MediaWiki response
  npc,        \* "call", "done", or "idle"
  nanorm,     \* local anorm when the normalization loop has ended
  nresult,    \* the list returned: <<normalized, target>>
  \* ---- a paginated worker on one batch of titles ----
  pworker,    \* which worker runs
  ptitles,    \* local titles: the batch
  pmeta,      \* the server's 'normalized' and 'redirects' lists for the batch
  ppages,     \* the server's pages for the batch
  pquery,     \* local query: the request parameters
  poutput,    \* local output
  preqs,      \* history: the parameters of every request sent
  presps,     \* history: every response received
  ppc,        \* "request", "return", "done", or "idle"
  pout,       \* "running", "returned", "raised"
  pret,       \* the value returned
  perror,     \* the exception raised
  \* ---- a top-level query function on a list of entities or titles ----
  tfun,       \* which function is called
  tinput,     \* the list (or the single string) the caller passes
  tchunk,     \* the chunksize the caller passes
  tpc,        \* "call", "checked", "chunks", "nested", "done", "raised", "idle"
  tlist,      \* the list checkEntities / checkTitles returned
  tagain,     \* the list a second check of tlist returned
  terror,     \* the exception raised
  tmsg,       \* the item and the character the exception's message names
  toffset,    \* doChunks: the number of items handed to batches so far
  tbatches,   \* history: the list of every worker call doChunks made
  tsent,      \* history: the items of every request sent
  \* ---- reqMediaWiki(query, project, method, attempts) ----
  mwQuery,    \* the query: whether it is a dict, and the number of its titles
  mwProject,  \* the project argument
  mwMethod,   \* the method argument
  attempts,   \* the attempts argument
  mwNt,       \* nt, the number of the turn of the loop
  mwpc,       \* "call", "loop", "returned", "raised", or "idle"
  mwResps,    \* the responses received, one per request sent
  sleeps,     \* the durations slept, in seconds
  mwError     \* the exception raised, "none" if none

chunkVars == <<x, chunksize, shape, mode, poison, pc, nlim, k, output, calls,
               outcome, retval, error>>

wdqsVars == <<format, method, wpc, clock, requests, resp, backoffs, woutcome,
              wret, werror, wmsg>>

normVars == <<ntitle, nq, npc, nanorm, nresult>>

pageVars == <<pworker, ptitles, pmeta, ppages, pquery, poutput, preqs, presps,
              ppc, pout, pret, perror>>

topVars == <<tfun, tinput, tchunk, tpc, tlist, tagain, terror, tmsg, toffset,
             tbatches, tsent>>

mwVars == <<mwQuery, mwProject, mwMethod, attempts, mwNt, mwpc, mwResps, sleeps,
            mwError>>

vars == <<chunkVars, wdqsVars, normVars, pageVars, topVars, mwVars>>

(***************************************************************************)
(* Python values.                                                          *)
(***************************************************************************)
PyNone == [kind |-> "None"]
Unbound == [kind |-> "unbound"]
Dict(m) == [kind |-> "dict", m |-> m]
Table(rows) == [kind |-> "table", rows |-> rows]
Tuple(a, b) == [kind |-> "tuple", d0 |-> a, d1 |-> b]

Range(s) == {s[i] : i \in 1..Len(s)}
Min(a, b) == IF a < b THEN a ELSE b
Max(a, b) == IF a > b THEN a ELSE b

\* Python's int(n/chunksize): true division, then truncation toward zero.
\* Defined for chunksize # 0 (the caller handles ZeroDivisionError).
TruncDiv(n, c) ==
  IF c > 0
    THEN (IF n >= 0 THEN n \div c ELSE -((-n) \div c))
    ELSE (IF n >= 0 THEN -(n \div (-c)) ELSE (-n) \div (-c))

\* Python's index normalisation for a slice bound: a negative bound counts
\* from the end, and the result is clamped to 0 .. len.
SliceIndex(i, n) == IF i < 0 THEN Max(i + n, 0) ELSE Min(i, n)

\* Variant of PySlice: the upper bound is one short.
PySliceOffByOne(s, a, b) ==
  LET lo == SliceIndex(a, Len(s))
      hi == SliceIndex(b - 1, Len(s))
  IN  IF lo >= hi THEN << >> ELSE SubSeq(s, lo + 1, hi)

\* x[a:b] with Python's semantics; positions are 0-based as in the source.
PySlice(s, a, b) ==
  LET lo == SliceIndex(a, Len(s))
      hi == SliceIndex(b, Len(s))
  IN  IF lo >= hi THEN << >> ELSE SubSeq(s, lo + 1, hi)

(***************************************************************************)
(* The worker f.  doChunks only requires that f returns None, a dict, a    *)
(* table or a pair; the workers of the module key their records by the     *)
(* items of the batch.                                                     *)
(***************************************************************************)
\* The record f produces for item i of batch b.
RecordOf(i, b, md) == IF md = "item" THEN <<i>> ELSE b

WorkerDict(b, md) == Dict([i \in Range(b) |-> RecordOf(i, b, md)])

WorkerTable(b, md) ==
  Table([j \in 1..Len(b) |-> [item |-> b[j], rec |-> RecordOf(b[j], b, md)]])

\* The auxiliary dict of a pair (d[1] of the source).
WorkerAux(b, md) == Dict([i \in Range(b) |-> <<Len(b)>> \o RecordOf(i, b, md)])

Worker(b, sh, md, bad) ==
  IF bad \in Range(b) THEN PyNone
  ELSE IF sh = "dict" THEN WorkerDict(b, md)
  ELSE IF sh = "table" THEN WorkerTable(b, md)
  ELSE IF sh = "tuple_dict" THEN Tuple(WorkerDict(b, md), WorkerAux(b, md))
  ELSE Tuple(WorkerTable(b, md), WorkerAux(b, md))

(***************************************************************************)
(* The merge of doChunks, lines 90-104.                                    *)
(***************************************************************************)
\* Variant of DictUpdate: a key already present keeps its value.
DictUpdateKeepFirst(a, b) ==
  Dict([key \in DOMAIN a.m \cup DOMAIN b.m |->
          IF key \in DOMAIN a.m THEN a.m[key] ELSE b.m[key]])

\* dict.update: keys of b overwrite those of a.
DictUpdate(a, b) ==
  Dict([key \in DOMAIN a.m \cup DOMAIN b.m |->
          IF key \in DOMAIN b.m THEN b.m[key] ELSE a.m[key]])

\* Variant of TableConcat: the new rows are put first.
TableConcatReversed(a, b) == Table(b.rows \o a.rows)

\* pd.concat([a, b]): the rows of a, then the rows of b.
TableConcat(a, b) == Table(a.rows \o b.rows)

\* Variant of TupleMerge: the second dict is not merged.
TupleMergeDropAux(out, d) ==
  IF d.d0.kind = "dict"
    THEN Tuple(DictUpdate(out.d0, d.d0), out.d1)
    ELSE Tuple(TableConcat(out.d0, d.d0), out.d1)

\* Lines 95-102: the pair case.
TupleMerge(out, d) ==
  IF d.d0.kind = "dict"
    THEN Tuple(DictUpdate(out.d0, d.d0), DictUpdate(out.d1, d.d1))
    ELSE Tuple(TableConcat(out.d0, d.d0), DictUpdate(out.d1, d.d1))

\* Variant of Merge: every batch replaces the aggregate.
MergeOverwrite(kk, out, d) == d

\* Lines 90-104: the first batch seeds the aggregate, later ones are merged
\* by the runtime type of d.
Merge(kk, out, d) ==
  IF kk = 0 THEN d
  ELSE IF d.kind = "dict" THEN DictUpdate(out, d)
  ELSE IF d.kind = "tuple" THEN TupleMerge(out, d)
  ELSE TableConcat(out, d)

\* Variant of InitialOutput: output starts as an empty dict.
InitialOutputEmpty == Dict(<< >>)

\* Lines 75-77: output is not assigned before the loop.
InitialOutput == Unbound

\* Variant of NoneResult: the partial aggregate is returned.
NoneResultPartial(out) == out

\* Lines 88-89: what doChunks returns when a batch yields None.
NoneResult(out) == PyNone

(***************************************************************************)
(* doChunks as a state machine.                                            *)
(***************************************************************************)
Lists == UNION {[1..n -> Items] : n \in 0..MaxLen}
ChunkSizes == (0 - MaxChunk)..MaxChunk
Shapes == {"dict", "table", "tuple_dict", "tuple_table"}
Modes == {"item", "batch"}

\* doChunks is not running.
ChunksIdle ==
  /\ x = << >> /\ chunksize = 1 /\ shape = "dict" /\ mode = "item"
  /\ poison = NoItem /\ pc = "idle" /\ nlim = 0 /\ k = 0
  /\ output = Unbound /\ calls = << >> /\ outcome = "running"
  /\ retval = PyNone /\ error = "none"

NoResponse == [status |-> 0]

\* reqWDQS is not running.
WDQSIdle ==
  /\ format = "json" /\ method = "GET" /\ wpc = "idle" /\ clock = 0
  /\ requests = << >> /\ resp = NoResponse /\ backoffs = << >>
  /\ woutcome = "running" /\ wret = PyNone /\ werror = "none"
  /\ wmsg = << >>

\* A title-valued None: no title is empty (checkTitles drops blank items).
NoTitle == << >>

\* A 'query' part with neither a 'normalized' nor a 'redirects' list.
NoMeta ==
  [hasNormalized |-> FALSE, normalized |-> << >>,
   hasRedirects |-> FALSE, redirects |-> << >>]

\* normalizedTitle is not running.
NormIdle ==
  /\ ntitle = NoTitle /\ nq = NoMeta /\ npc = "idle"
  /\ nanorm = NoTitle /\ nresult = <<NoTitle, NoTitle>>

\* No paginated worker is running.
PagesIdle ==
  /\ pworker = "none" /\ ptitles = << >> /\ pmeta = NoMeta /\ ppages = << >>
  /\ pquery = << >> /\ poutput = << >> /\ preqs = << >> /\ presps = << >>
  /\ ppc = "idle" /\ pout = "running" /\ pret = PyNone /\ perror = "none"

\* No top-level query function is running.
TopIdle ==
  /\ tfun = "none" /\ tinput = << >> /\ tchunk = 0 /\ tpc = "idle"
  /\ tlist = << >> /\ tagain = << >> /\ terror = "none" /\ tmsg = << >>
  /\ toffset = 0 /\ tbatches = << >> /\ tsent = << >>


MWIdle ==
  /\ mwQuery = [isDict |-> TRUE, titles |-> 0] /\ mwProject = << >>
  /\ mwMethod = "GET" /\ attempts = 0 /\ mwNt = 0 /\ mwpc = "idle"
  /\ mwResps = << >> /\ sleeps = << >> /\ mwError = "none"

InitChunks ==
  /\ WDQSIdle /\ NormIdle /\ PagesIdle /\ TopIdle /\ MWIdle
  /\ x \in Lists
  /\ chunksize \in ChunkSizes
  /\ shape \in Shapes
  /\ mode \in Modes
  /\ poison \in Items \cup {NoItem}
  /\ pc = "start"
  /\ nlim = 0
  /\ k = 0
  /\ output = InitialOutput
  /\ calls = << >>
  /\ outcome = "running"
  /\ retval = PyNone
  /\ error = "none"

\* Lines 75-76: n = len(x); nlim = int(n/chunksize).
doChunksEnter ==
  /\ pc = "start"
  /\ IF chunksize = 0
       THEN /\ pc' = "done"
            /\ outcome' = "raised"
            /\ error' = "ZeroDivisionError"
            /\ UNCHANGED <<nlim, k>>
       ELSE /\ nlim' = TruncDiv(Len(x), chunksize)
            /\ k' = 0
            /\ pc' = "loop"
            /\ UNCHANGED <<outcome, error>>
  /\ UNCHANGED <<x, chunksize, shape, mode, poison, output, calls, retval>>
  /\ UNCHANGED <<wdqsVars, normVars, pageVars, topVars, mwVars>>

\* Lines 77-104: one pass of the loop body, or the loop's end.
doChunksIter ==
  /\ pc = "loop"
  /\ LET offset == k * chunksize
         x_list == PySlice(x, offset, offset + chunksize)
         d      == Worker(x_list, shape, mode, poison)
     IN  IF k > nlim \/ Len(x_list) = 0
           THEN \* range(nlim+1) is exhausted, or the break of line 81
                /\ pc' = "ret"
                /\ UNCHANGED <<k, output, calls, outcome, retval>>
           ELSE /\ calls' = Append(calls, x_list)
                /\ IF d = PyNone
                     THEN /\ pc' = "done"
                          /\ outcome' = "returned"
                          /\ retval' = NoneResult(output)
                          /\ UNCHANGED <<k, output>>
                     ELSE /\ output' = Merge(k, output, d)
                          /\ k' = k + 1
                          /\ pc' = "loop"
                          /\ UNCHANGED <<outcome, retval>>
  /\ UNCHANGED <<x, chunksize, shape, mode, poison, nlim, error>>
  /\ UNCHANGED <<wdqsVars, normVars, pageVars, topVars, mwVars>>

\* Line 107: return(output); reading an unassigned local raises.
doChunksReturn ==
  /\ pc = "ret"
  /\ pc' = "done"
  /\ IF output = Unbound
       THEN /\ outcome' = "raised"
            /\ error' = "UnboundLocalError"
            /\ UNCHANGED retval
       ELSE /\ outcome' = "returned"
            /\ retval' = output
            /\ UNCHANGED error
  /\ UNCHANGED <<x, chunksize, shape, mode, poison, nlim, k, output, calls>>
  /\ UNCHANGED <<wdqsVars, normVars, pageVars, topVars, mwVars>>

NextChunks == doChunksEnter \/ doChunksIter \/ doChunksReturn

SpecChunks == InitChunks /\ [][NextChunks]_vars

(***************************************************************************)
(* reqWDQS, lines 140-205.                                                 *)
(*                                                                         *)
(* A header value is a sequence of characters.  An HTTP-date is the one    *)
(* token "D" together with the epoch second http2time reads from it; any   *)
(* other text that is not all digits is one http2time cannot parse.        *)
(***************************************************************************)
\* Line 189: the longest wait reqWDQS accepts, in seconds.
MaxWait == 600
\* Line 182: the status code of a rate-limit response.
TooManyRequests == 429

DigitChars == {"0", "1", "2", "3", "4", "5", "6", "7", "8", "9"}

DigitValue(ch) ==
  CASE ch = "0" -> 0 [] ch = "1" -> 1 [] ch = "2" -> 2 [] ch = "3" -> 3
    [] ch = "4" -> 4 [] ch = "5" -> 5 [] ch = "6" -> 6 [] ch = "7" -> 7
    [] ch = "8" -> 8 [] ch = "9" -> 9

\* Line 184: re.match(r'^\d+$', t) succeeds.
IsDigits(chars) == Len(chars) >= 1 /\ \A i \in 1..Len(chars) : chars[i] \in DigitChars

\* Line 188: int(t) of a digit string.
RECURSIVE DigitsToInt(_)
DigitsToInt(chars) ==
  IF Len(chars) = 0 THEN 0
  ELSE 10 * DigitsToInt(SubSeq(chars, 1, Len(chars) - 1))
       + DigitValue(chars[Len(chars)])

\* int(time()): the clock in whole seconds.
IntTime(ticks) == ticks \div TicksPerSec

\* Variant of RetryWait: the date difference is taken the wrong way round.
RetryWaitReversed(h, now) ==
  IF IsDigits(h.chars) THEN DigitsToInt(h.chars) ELSE IntTime(now) - h.epoch

\* Lines 184-188: the wait, in seconds, computed from a Retry-after header h
\* at clock tick now.  Needs a digit string or a date http2time can parse.
RetryWait(h, now) ==
  IF IsDigits(h.chars) THEN DigitsToInt(h.chars) ELSE h.epoch - IntTime(now)

\* Variant of WaitTooLong: a wait of exactly MaxWait is refused too.
WaitTooLongInclusive(t) == t >= MaxWait

\* Line 189: the wait is refused.
WaitTooLong(t) == t > MaxWait

\* Lines 158-165: the accept header of a format; "" when not supported.
WdqsFormat(fmt) ==
  CASE fmt = "json" -> "application/sparql-results+json"
    [] fmt = "xml"  -> "application/sparql-results+xml"
    [] fmt = "csv"  -> "text/csv"
    [] OTHER        -> ""

\* Lines 167-178: the request sent, the same on every pass of the loop.
BuildRequest(mth, fmt) ==
  [url    |-> "https://query.wikidata.org/sparql",
   method |-> mth,
   query  |-> "sparql_query",
   accept |-> WdqsFormat(fmt)]

\* str.startswith on a header value given as <<media type, parameters...>>.
StartsWith(value, prefix) == Len(value) >= 1 /\ value[1] = prefix

\* Variant of TypeMatches: any of the three known types is accepted.
TypeMatchesAnyKnown(fmt, rtype) ==
  \E f \in {"json", "xml", "csv"} : StartsWith(rtype, WdqsFormat(f))

\* Lines 198-205: the response type matches the requested format.
TypeMatches(fmt, rtype) == StartsWith(rtype, WdqsFormat(fmt))

TextHeader(chars) ==
  [present |-> TRUE, chars |-> chars, parsable |-> FALSE, epoch |-> 0]
DateHeader(e) ==
  [present |-> TRUE, chars |-> <<"D">>, parsable |-> TRUE, epoch |-> e]
NoHeader ==
  [present |-> FALSE, chars |-> << >>, parsable |-> FALSE, epoch |-> 0]

\* Retry-after values a server may send at clock tick now.
RetryAfterValues(now) ==
  {TextHeader(c) : c \in {<<"0">>, <<"1", "2", "0">>, <<"6", "0", "0">>,
                          <<"6", "0", "1">>, <<"1", "2", "0", "s">>}}
  \cup {DateHeader(IntTime(now) + d) : d \in {0 - 1, 120, 600, 601}}
  \cup {NoHeader}

ContentTypes ==
  { <<"application/sparql-results+json">>,
    <<"application/sparql-results+json", "charset=utf-8">>,
    <<"application/sparql-results+xml">>,
    <<"text/csv">>,
    <<"text/html">>,
    << >> }

\* The responses the server may give to a request answered at tick now.
Responses(now) ==
  {[status |-> TooManyRequests, retryAfter |-> h, ctype |-> <<"text/html">>] :
      h \in RetryAfterValues(now)}
  \cup {[status |-> 200, retryAfter |-> NoHeader, ctype |-> c] : c \in ContentTypes}
  \cup {[status |-> 500, retryAfter |-> NoHeader, ctype |-> <<"text/html">>]}

\* Ticks a request may take.
Latencies == {0, 1}

InitWDQS ==
  /\ ChunksIdle /\ NormIdle /\ PagesIdle /\ TopIdle /\ MWIdle
  /\ format \in {"json", "xml", "csv", "html"}
  /\ method \in {"GET", "POST", "PUT"}
  /\ wpc = "start"
  /\ clock = 0
  /\ requests = << >>
  /\ resp = NoResponse
  /\ backoffs = << >>
  /\ woutcome = "running"
  /\ wret = PyNone
  /\ werror = "none"
  /\ wmsg = << >>

\* Lines 158-172: the format is checked and the request is prepared.
reqWDQSEnter ==
  /\ wpc = "start"
  /\ IF WdqsFormat(format) = ""
       THEN /\ wpc' = "done"
            /\ woutcome' = "raised"
            /\ werror' = "ValueError"
            /\ wmsg' = <<format>>
       ELSE /\ wpc' = "send"
            /\ UNCHANGED <<woutcome, werror, wmsg>>
  /\ UNCHANGED <<format, method, clock, requests, resp, backoffs, wret>>
  /\ UNCHANGED <<chunkVars, normVars, pageVars, topVars, mwVars>>

\* Lines 174-180: one request is sent and its response received.
reqWDQSSend ==
  /\ wpc = "send"
  /\ Len(requests) < MaxRequests
  /\ IF method \notin {"GET", "POST"}
       THEN /\ wpc' = "done"
            /\ woutcome' = "raised"
            /\ werror' = "ValueError"
            /\ wmsg' = <<method>>
            /\ UNCHANGED <<clock, requests, resp>>
       ELSE /\ requests' = Append(requests,
                                  [req |-> BuildRequest(method, format), at |-> clock])
            /\ \E lat \in Latencies : clock' = clock + lat
            /\ resp' \in Responses(clock')
            /\ wpc' = "response"
            /\ UNCHANGED <<woutcome, werror, wmsg>>
  /\ UNCHANGED <<format, method, backoffs, wret>>
  /\ UNCHANGED <<chunkVars, normVars, pageVars, topVars, mwVars>>

\* Lines 182-194: a 429 response.
reqWDQSBackoff ==
  /\ wpc = "response"
  /\ resp.status = TooManyRequests
  /\ LET h == resp.retryAfter
     IN  IF ~h.present
           THEN \* response.headers['Retry-after'] raises
                /\ wpc' = "done" /\ woutcome' = "raised" /\ werror' = "KeyError"
                /\ UNCHANGED <<clock, backoffs>>
         ELSE IF ~IsDigits(h.chars) /\ ~h.parsable
           THEN \* http2time yields None, and None - int raises
                /\ wpc' = "done" /\ woutcome' = "raised" /\ werror' = "TypeError"
                /\ UNCHANGED <<clock, backoffs>>
         ELSE LET t == RetryWait(h, clock)
              IN  IF WaitTooLong(t)
                    THEN \* line 190: raise of a string raises TypeError
                         /\ wpc' = "done" /\ woutcome' = "raised"
                         /\ werror' = "TypeError"
                         /\ backoffs' = Append(backoffs,
                              [hdr |-> h, at |-> clock, wait |-> t, slept |-> FALSE])
                         /\ UNCHANGED clock
                  ELSE IF t < 0
                    THEN \* sleep of a negative length raises
                         /\ wpc' = "done" /\ woutcome' = "raised"
                         /\ werror' = "ValueError"
                         /\ backoffs' = Append(backoffs,
                              [hdr |-> h, at |-> clock, wait |-> t, slept |-> FALSE])
                         /\ UNCHANGED clock
                  ELSE \* lines 193-194: sleep(t); continue
                       /\ backoffs' = Append(backoffs,
                            [hdr |-> h, at |-> clock, wait |-> t, slept |-> TRUE])
                       /\ clock' = clock + t * TicksPerSec
                       /\ wpc' = "send"
                       /\ UNCHANGED <<woutcome, werror>>
  /\ UNCHANGED <<format, method, requests, resp, wret, wmsg>>
  /\ UNCHANGED <<chunkVars, normVars, pageVars, topVars, mwVars>>

\* Lines 196-205: any other response.
reqWDQSFinish ==
  /\ wpc = "response"
  /\ resp.status # TooManyRequests
  /\ wpc' = "done"
  /\ IF resp.status >= 400
       THEN \* response.raise_for_status()
            /\ woutcome' = "raised" /\ werror' = "HTTPError"
            /\ wmsg' = <<resp.status>>
            /\ UNCHANGED wret
     ELSE IF resp.ctype = << >>
       THEN \* response.headers['Content-Type'] raises
            /\ woutcome' = "raised" /\ werror' = "KeyError"
            /\ wmsg' = <<"Content-Type">>
            /\ UNCHANGED wret
     ELSE IF TypeMatches(format, resp.ctype)
       THEN /\ woutcome' = "returned"
            /\ wret' = [kind |-> format, of |-> resp.ctype]
            /\ UNCHANGED <<werror, wmsg>>
     ELSE \* line 205: the message names format and rtype
          /\ woutcome' = "raised" /\ werror' = "ValueError"
          /\ wmsg' = <<format, resp.ctype>>
          /\ UNCHANGED wret
  /\ UNCHANGED <<format, method, clock, requests, resp, backoffs>>
  /\ UNCHANGED <<chunkVars, normVars, pageVars, topVars, mwVars>>

NextWDQS == reqWDQSEnter \/ reqWDQSSend \/ reqWDQSBackoff \/ reqWDQSFinish

SpecWDQS == InitWDQS /\ [][NextWDQS]_vars

(***************************************************************************)
(* normalizedTitle, lines 1997-2035.                                       *)
(*                                                                         *)
(* A title is a sequence of characters, each named by a string; "U+030C"   *)
(* is the combining caron, "U+01CE" and "U+01CD" the precomposed small and *)
(* capital a with caron.  An entry of the 'normalized' list is a record    *)
(* [fromencoded, from, to], fromencoded being "true", "false" or "absent"  *)
(* (the key is missing); an entry of 'redirects' is [from, to].            *)
(***************************************************************************)
\* Longest 'normalized' list of a response.
MaxNormalized == 2
\* Longest 'redirects' list of a response.
MaxRedirects == 2

\* requests.utils.quote of one character: its UTF-8 bytes, percent-encoded,
\* unless it is an unreserved ASCII character.
QuoteChar(c) ==
  CASE c = "U+030C" -> "%CC%8C"
    [] c = "U+01CE" -> "%C7%8E"
    [] c = "U+01CD" -> "%C7%8D"
    [] c = " "      -> "%20"
    [] OTHER        -> c

\* requests.utils.quote(anorm), line 2019.
Quote(t) == [i \in 1..Len(t) |-> QuoteChar(t[i])]

\* Lines 2019-2020: the NFC rule of entry nn applied to anorm.
AfterEncodedRule(nn, anorm) ==
  IF nn.fromencoded = "true" /\ Quote(anorm) = nn.from THEN nn.to ELSE anorm

\* Lines 2017-2024: the loop over q['normalized'] from entry i on; the value
\* of anorm when it ends.
RECURSIVE NormalizeFrom(_, _, _)
NormalizeFrom(entries, i, anorm) ==
  IF i > Len(entries) THEN anorm
  ELSE LET nn == entries[i]
           a1 == AfterEncodedRule(nn, anorm)
       IN  IF nn.from = a1 THEN nn.to
           ELSE NormalizeFrom(entries, i + 1, a1)

\* Lines 2013-2024: anorm after the normalization steps.
NormalizedValue(title, q) ==
  IF q.hasNormalized THEN NormalizeFrom(q.normalized, 1, title) ELSE title

\* Variant of NormalizedOrNone: the value is returned even when unchanged.
NormalizedAlways(anorm, title) == anorm

\* Line 2026: normalized = None if anorm == title else anorm.
NormalizedOrNone(anorm, title) == IF anorm = title THEN NoTitle ELSE anorm

\* Lines 2030-2033: the loop over q['redirects'] from entry i on.
RECURSIVE RedirectFrom(_, _, _)
RedirectFrom(entries, i, key) ==
  IF i > Len(entries) THEN NoTitle
  ELSE IF entries[i].from = key THEN entries[i].to
  ELSE RedirectFrom(entries, i + 1, key)

\* Variant of RedirectTarget: the redirects are matched against the
\* original title.
RedirectTargetOfOriginal(title, anorm, q) ==
  IF q.hasRedirects THEN RedirectFrom(q.redirects, 1, title) ELSE NoTitle

\* Lines 2028-2033: target, matched with anorm.
RedirectTarget(title, anorm, q) ==
  IF q.hasRedirects THEN RedirectFrom(q.redirects, 1, anorm) ELSE NoTitle

\* normalizedTitle(title, q): the list [normalized, target].
NormalizedTitle(title, q) ==
  LET anorm == NormalizedValue(title, q)
  IN  <<NormalizedOrNone(anorm, title), RedirectTarget(title, anorm, q)>>

\* The titles and list entries normalizedTitle is called with.
TitleD == <<"a", "U+030C">>
TitleC == <<"U+01CE">>
TitleU == <<"U+01CD">>

NormTitles == {TitleD, TitleC, <<"a">>, <<"A">>}

NormEntries ==
  { [fromencoded |-> "true",   from |-> Quote(TitleD), to |-> TitleC],
    [fromencoded |-> "false",  from |-> TitleC,        to |-> TitleU],
    [fromencoded |-> "absent", from |-> <<"a">>,       to |-> <<"A">>],
    [fromencoded |-> "true",   from |-> <<"a">>,       to |-> <<"b">>],
    [fromencoded |-> "true",   from |-> <<"A">>,       to |-> <<"a">>] }

RedirectEntries ==
  { [from |-> TitleU,  to |-> <<"C", "a", "r", "o", "n">>],
    [from |-> TitleD,  to |-> <<"X">>],
    [from |-> TitleC,  to |-> <<"Y">>],
    [from |-> <<"A">>, to |-> <<"B">>],
    [from |-> <<"a">>, to |-> <<"Z">>] }

SeqsUpTo(S, n) == UNION {[1..m -> S] : m \in 0..n}

\* The 'query' parts: each list is absent, or holds up to the bound entries.
Metas ==
  { [hasNormalized |-> hn, normalized |-> ns, hasRedirects |-> hr, redirects |-> rs] :
      hn \in BOOLEAN, ns \in SeqsUpTo(NormEntries, MaxNormalized),
      hr \in BOOLEAN, rs \in SeqsUpTo(RedirectEntries, MaxRedirects) }

WellFormedMeta(q) ==
  /\ ~q.hasNormalized => q.normalized = << >>
  /\ ~q.hasRedirects => q.redirects = << >>

InitNorm ==
  /\ ChunksIdle /\ WDQSIdle /\ PagesIdle /\ TopIdle /\ MWIdle
  /\ ntitle \in NormTitles
  /\ nq \in {q \in Metas : WellFormedMeta(q)}
  /\ npc = "call"
  /\ nanorm = NoTitle
  /\ nresult = <<NoTitle, NoTitle>>

\* Lines 2013-2035: one call of normalizedTitle.
normalizedTitleCall ==
  /\ npc = "call"
  /\ nanorm' = NormalizedValue(ntitle, nq)
  /\ nresult' = NormalizedTitle(ntitle, nq)
  /\ npc' = "done"
  /\ UNCHANGED <<ntitle, nq>>
  /\ UNCHANGED <<chunkVars, wdqsVars, pageVars, topVars, mwVars>>

NextNorm == normalizedTitleCall

SpecNorm == InitNorm /\ [][NextNorm]_vars

(***************************************************************************)
(* The paginated workers: the continuation loop that m_WikidataEntity      *)
(* (lines 2264-2316), m_Redirects (2349-2405), m_PageFiles (2682-2740),    *)
(* m_PageOutLinks (2863-2920) and m_PageInLinks (3012-3073, called with    *)
(* redirects=False as its own chunked path does at line 2983) run on one   *)
(* batch of checked titles, and the single request of m_PagePrimaryImage   *)
(* (2584-2628).  reqMediaWiki is the source of the decoded responses.      *)
(*                                                                         *)
(* The server is coherent within a batch: every response of a batch lists  *)
(* the same pages and the same 'normalized' and 'redirects' entries (the   *)
(* comment at lines 2377, 2703, 2888, 3040); what differs from response to *)
(* response is the property each page carries (its links, images,          *)
(* redirects, page properties) and the continuation token.  A token always *)
(* has a 'continue' field next to the field of the property module         *)
(* (lines 2378-2379).                                                      *)
(*                                                                         *)
(* A request's parameters and a token are functions from parameter names   *)
(* to values.  A page of the batch is [title, kind], kind being "ok",      *)
(* "missing", "invalid" or "nopageid" (no 'pageid' key).  What a response  *)
(* carries for a page is a payload [has, list, flag]: has says whether the *)
(* property key is in the page, list is its value, flag is the             *)
(* 'disambiguation' page property.  A row of the output is                 *)
(* [status, normalized, target, count, list, listNone, value]: count and   *)
(* list are the counter and the list of the accumulating workers, listNone *)
(* says that the list is None, value is the entity or the image.           *)
(***************************************************************************)
\* Most responses one batch is followed through.
MaxPages == 3

Paginated ==
  {"WikidataEntity", "Redirects", "PageFiles", "PageOutLinks", "PageInLinks"}
Workers == Paginated \cup {"PagePrimaryImage"}

\* '|'.join(titles) from title i on.
RECURSIVE JoinFrom(_, _)
JoinFrom(titles, i) ==
  IF i > Len(titles) THEN << >>
  ELSE IF i = Len(titles) THEN titles[i]
  ELSE titles[i] \o <<"|">> \o JoinFrom(titles, i + 1)

\* The query dict each worker builds before its first request.
BaseQuery(worker, titles) ==
  CASE worker = "WikidataEntity" ->
         [format |-> "json", formatversion |-> "2", redirects |-> "1",
          action |-> "query", prop |-> "pageprops",
          ppprop |-> "wikibase_item|disambiguation",
          titles |-> JoinFrom(titles, 1)]
    [] worker = "Redirects" ->
         [format |-> "json", formatversion |-> "2", redirects |-> "1",
          action |-> "query", prop |-> "redirects", rdnamespace |-> "0",
          rdprop |-> "title", rdlimit |-> "max",
          titles |-> JoinFrom(titles, 1)]
    [] worker = "RedirectsDF" ->
         [format |-> "json", formatversion |-> "2", redirects |-> "1",
          action |-> "query", prop |-> "redirects|pageprops",
          rdnamespace |-> "0", rdprop |-> "title", rdlimit |-> "max",
          ppprop |-> "wikibase_item|disambiguation",
          titles |-> JoinFrom(titles, 1)]
    [] worker = "PagePrimaryImage" ->
         [format |-> "json", formatversion |-> "2", redirects |-> "1",
          action |-> "query", prop |-> "pageimages", piprop |-> "original",
          pilimit |-> "max", titles |-> JoinFrom(titles, 1)]
    [] worker = "PageFiles" ->
         [format |-> "json", formatversion |-> "2", redirects |-> "1",
          action |-> "query", prop |-> "images", imlimit |-> "max",
          titles |-> JoinFrom(titles, 1)]
    [] worker = "PageOutLinks" ->
         [format |-> "json", formatversion |-> "2", redirects |-> "1",
          action |-> "query", prop |-> "links", plnamespace |-> "0",
          pllimit |-> "max", titles |-> JoinFrom(titles, 1)]
    [] worker = "PageInLinks" ->
         [format |-> "json", formatversion |-> "2", action |-> "query",
          prop |-> "linkshere", lhnamespace |-> "0", lhprop |-> "title",
          lhlimit |-> "max", titles |-> JoinFrom(titles, 1)]

\* The token field of the property module a worker queries, named with the
\* prefix of the module's parameters in the query dict.
ContinueField(worker) ==
  CASE worker = "WikidataEntity"   -> "ppcontinue"
    [] worker = "Redirects"        -> "rdcontinue"
    [] worker = "RedirectsDF"      -> "rdcontinue"
    [] worker = "PagePrimaryImage" -> "picontinue"
    [] worker = "PageFiles"        -> "imcontinue"
    [] worker = "PageOutLinks"     -> "plcontinue"
    [] worker = "PageInLinks"      -> "lhcontinue"

\* j['continue'] with the module field set to v.
Token(worker, v) ==
  [f \in {"continue", ContinueField(worker)} |->
     IF f = "continue" THEN "||" ELSE v]

\* Variant of QueryUpdate: a parameter the query already has keeps its
\* value.
QueryUpdateKeepOld(query, token) ==
  [f \in DOMAIN query \cup DOMAIN token |->
     IF f \in DOMAIN query THEN query[f] ELSE token[f]]

\* query.update(j['continue']).
QueryUpdate(query, token) ==
  [f \in DOMAIN query \cup DOMAIN token |->
     IF f \in DOMAIN token THEN token[f] ELSE query[f]]

\* Variant of LoopContinues: the loop gives up after two responses.
LoopContinuesCapped(worker, j, n) ==
  worker # "PagePrimaryImage" /\ j.hasToken /\ n < 2

\* Whether the worker sends another request after response j, the n-th of
\* the batch: 'continue' in j; m_PagePrimaryImage sends one request only.
LoopContinues(worker, j, n) ==
  worker # "PagePrimaryImage" /\ j.hasToken

\* Variant of MatchKey: the normalized title is preferred to the target.
MatchKeyNormalizedFirst(target, normalized, title) ==
  IF normalized # NoTitle THEN normalized
  ELSE IF target # NoTitle THEN target
  ELSE title

\* next(n for n in [target, normalized, title] if n is not None).
MatchKey(target, normalized, title) ==
  IF target # NoTitle THEN target
  ELSE IF normalized # NoTitle THEN normalized
  ELSE title

\* A None in the 'entity' or 'image' column.
NoValue == "None"

Row(status, normalized, target, count, list, listNone, value) ==
  [status |-> status, normalized |-> normalized, target |-> target,
   count |-> count, list |-> list, listNone |-> listNone, value |-> value]

\* A value of m_Redirects' output: a bare list.
ListRow(list) == Row("", NoTitle, NoTitle, 0, list, FALSE, NoValue)

\* output[title] = row.
Put(out, title, row) ==
  [t \in DOMAIN out \cup {title} |-> IF t = title THEN row ELSE out[t]]

\* The status the accumulating workers and m_PagePrimaryImage give a page.
PageStatus(page) ==
  CASE page.kind = "invalid"  -> "invalid"
    [] page.kind = "missing"  -> "missing"
    [] page.kind = "nopageid" -> "no pageid"
    [] OTHER                  -> "OK"

\* m_WikidataEntity: the status and the entity of a page.
EntityStatus(page, payload) ==
  IF page.kind = "invalid" THEN "invalid"
  ELSE IF page.kind = "missing" THEN "missing"
  ELSE IF ~payload.has THEN "no_pageprops"
  ELSE IF payload.list = << >> THEN "no_wikibase_item"
  ELSE IF payload.flag THEN "disambiguation"
  ELSE "OK"

EntityItem(page, payload) ==
  IF EntityStatus(page, payload) \in {"disambiguation", "OK"}
  THEN payload.list[1] ELSE NoValue

\* m_PagePrimaryImage: page['original']['source'] of a page with status OK.
ImageSource(page, payload) ==
  IF PageStatus(page) = "OK" /\ payload.has /\ payload.list # << >>
  THEN payload.list[1] ELSE NoValue

\* splitext(img)[1] without its dot, for the file names of the model.
FileExt(img) ==
  CASE img = "P.jpg" -> "jpg"
    [] img = "S.png" -> "png"
    [] img = "Q.svg" -> "svg"
    [] OTHER         -> ""

\* exts for the default exclude_ext='svg,webp,xcf'.
ExcludeExt == {"svg", "webp", "xcf"}

\* The images of a page m_PageFiles keeps.
KeptImages(images) ==
  SelectSeq(images, LAMBDA img : ~(FileExt(img) = "" \/ FileExt(img) \in ExcludeExt))

\* The list a page contributes to the accumulated list of a title.
PageItems(worker, payload) ==
  IF worker = "PageFiles" THEN KeptImages(payload.list) ELSE payload.list

\* Variant of Extend: items the list already holds are not added again.
RECURSIVE ExtendUnique(_, _)
ExtendUnique(list, items) ==
  IF items = << >> THEN list
  ELSE ExtendUnique(IF \E i \in 1..Len(list) : list[i] = items[1]
                    THEN list ELSE Append(list, items[1]),
                    Tail(items))

\* list.extend(items).
Extend(list, items) == list \o items

\* The running state of one pass over a response: the output so far, the
\* exception raised ("none" if none), and whether the loop over the pages
\* has been left with break.
Pass(out, err, brk) == [out |-> out, err |-> err, brk |-> brk]

\* Variant of EntityPage: the row is stored under the title of the page.
EntityPageUnderPageTitle(st, title, nt, page, payload) ==
  Pass(Put(st.out, page.title,
           Row(EntityStatus(page, payload), nt[1], nt[2], 0, << >>, FALSE,
               EntityItem(page, payload))),
       "none", FALSE)

\* m_WikidataEntity, lines 2290-2307: the row of the title is written anew
\* from every response.
EntityPage(st, title, nt, page, payload) ==
  Pass(Put(st.out, title,
           Row(EntityStatus(page, payload), nt[1], nt[2], 0, << >>, FALSE,
               EntityItem(page, payload))),
       "none", FALSE)

\* m_PagePrimaryImage, lines 2610-2626.
ImagePage(st, title, nt, page, payload) ==
  Pass(Put(st.out, title,
           Row(PageStatus(page), nt[1], nt[2], 0, << >>, FALSE,
               ImageSource(page, payload))),
       "none", FALSE)

\* m_Redirects, lines 2380-2392.
RedirectsPage(st, title, anorm, page, payload, first) ==
  IF first /\ page.kind \in {"invalid", "missing"}
  THEN Pass(Put(st.out, title, ListRow(<< >>)), "none", TRUE)
  ELSE LET o1 == IF first THEN Put(st.out, title, ListRow(<<anorm>>))
                 ELSE st.out
           redirects == IF payload.has THEN payload.list ELSE << >>
       IN  IF title \notin DOMAIN o1 THEN Pass(o1, "KeyError", FALSE)
           ELSE Pass(Put(o1, title,
                         [o1[title] EXCEPT !.list = Extend(@, redirects)]),
                     "none", FALSE)

\* m_PageFiles (lines 2706-2731), m_PageOutLinks (2891-2910) and
\* m_PageInLinks (3043-3061): the row is created from the first response,
\* the counter and the list grow with every response.
AccumulatePage(worker, st, title, nt, page, payload, first) ==
  LET status == PageStatus(page)
      o1 == IF first
            THEN Put(st.out, title,
                     Row(status, nt[1], nt[2], 0, << >>,
                         worker # "PageInLinks" /\ status # "OK", NoValue))
            ELSE st.out
      items == PageItems(worker, payload)
  IN  IF ~payload.has THEN Pass(o1, "none", FALSE)
      ELSE IF title \notin DOMAIN o1 THEN Pass(o1, "KeyError", FALSE)
      ELSE IF o1[title].listNone THEN Pass(o1, "AttributeError", FALSE)
      ELSE Pass(Put(o1, title,
                    [o1[title] EXCEPT !.count = @ + Len(items),
                                      !.list = Extend(@, items)]),
                "none", FALSE)

\* A record of m_RedirectsDF's output as "output[title] = {'title': title}"
\* makes it (line 2463): the columns 'status', 'normalized', 'target' and
\* 'entity' (value) and the key 'redirects' (list) are not set.
BareRecord ==
  [hasStatus |-> FALSE, status |-> "", normalized |-> NoTitle,
   target |-> NoTitle, value |-> NoValue, hasList |-> FALSE, list |-> << >>,
   listNone |-> FALSE]

\* The page properties of a page in a response to m_RedirectsDF: the flag
\* of the payload tells whether the page comes with the item Q1.
PageProps(payload) ==
  IF payload.flag THEN [has |-> TRUE, list |-> <<"Q1">>, flag |-> FALSE]
  ELSE [has |-> FALSE, list |-> << >>, flag |-> FALSE]

\* m_RedirectsDF (lines 2470-2499): the columns are set from the first
\* response; the list is set anew from every response, to the resolved
\* title if the page has an item, and extended with the redirects.
RedirectsDFPage(st, title, nt, anorm, page, payload, first) ==
  LET item == IF first THEN EntityItem(page, PageProps(payload)) ELSE NoValue
      r1 == IF first
            THEN [st.out[title] EXCEPT
                    !.hasStatus = TRUE,
                    !.status = EntityStatus(page, PageProps(payload)),
                    !.normalized = nt[1],
                    !.target = nt[2],
                    !.value = item]
            ELSE st.out[title]
      redirects == IF payload.has THEN payload.list ELSE << >>
  IN  Pass(Put(st.out, title,
               [r1 EXCEPT !.hasList = TRUE,
                          !.list = Extend(IF item = NoValue THEN << >>
                                          ELSE <<anorm>>, redirects)]),
           "none", FALSE)

\* The body of "if anorm == page['title']" for one page.
MatchedPage(worker, st, title, nt, anorm, page, payload, first) ==
  CASE worker = "WikidataEntity"   -> EntityPage(st, title, nt, page, payload)
    [] worker = "PagePrimaryImage" -> ImagePage(st, title, nt, page, payload)
    [] worker = "Redirects"        ->
         RedirectsPage(st, title, anorm, page, payload, first)
    [] worker = "RedirectsDF"      ->
         RedirectsDFPage(st, title, nt, anorm, page, payload, first)
    [] OTHER -> AccumulatePage(worker, st, title, nt, page, payload, first)

\* "for page in q['pages']" from page i on, for one title.  c is the
\* context [worker, pages, content, first] of the response.
RECURSIVE PagesFrom(_, _, _, _, _, _)
PagesFrom(c, st, title, nt, anorm, i) ==
  IF i > Len(c.pages) \/ st.err # "none" \/ st.brk THEN st
  ELSE PagesFrom(c,
                 IF anorm = c.pages[i].title
                 THEN MatchedPage(c.worker, st, title, nt, anorm, c.pages[i],
                                  c.content[i], c.first)
                 ELSE st,
                 title, nt, anorm, i + 1)

\* "for title in titles" from title i on.
RECURSIVE TitlesFrom(_, _, _, _, _)
TitlesFrom(c, st, titles, meta, i) ==
  IF i > Len(titles) \/ st.err # "none" THEN st
  ELSE LET title == titles[i]
           nt == NormalizedTitle(title, meta)
           anorm == MatchKey(nt[2], nt[1], title)
           \* m_RedirectsDF makes the record of the title anew (line 2463)
           out == IF c.worker = "RedirectsDF"
                  THEN Put(st.out, title, BareRecord) ELSE st.out
           st1 == PagesFrom(c, Pass(out, st.err, FALSE), title, nt, anorm, 1)
       IN  TitlesFrom(c, st1, titles, meta, i + 1)

\* One response with a 'query' part taken into the output.
TakeResponse(worker, out, titles, meta, pages, j, query) ==
  TitlesFrom([worker |-> worker, pages |-> pages, content |-> j.content,
              first |-> "continue" \notin DOMAIN query],
             Pass(out, "none", FALSE), titles, meta, 1)

\* What the worker returns after the loop: m_Redirects turns the empty
\* lists into None and returns the dict (lines 2401-2405), the others build
\* a table with one row per key.
Finish(worker, out) ==
  IF worker = "Redirects"
  THEN Dict([t \in DOMAIN out |->
               IF out[t].list = << >> THEN [out[t] EXCEPT !.listNone = TRUE]
               ELSE out[t]])
  ELSE Table(out)

\* A response without 'query': m_PageFiles reads j['query'] unguarded
\* (line 2695), the other workers return None.
NoQueryError(worker) == IF worker = "PageFiles" THEN "KeyError" ELSE "none"

(***************************************************************************)
(* The batches and the responses of the model.                             *)
(***************************************************************************)
Caron == <<"C", "a", "r", "o", "n">>

Absent == [has |-> FALSE, list |-> << >>, flag |-> FALSE]

\* The titles of two pages that link, or redirect, to the pages of a batch.
LinkP == <<"P">>
LinkQ == <<"Q">>

\* What one response may carry for one page.
Payloads(worker) ==
  CASE worker = "WikidataEntity" ->
         { Absent,
           [has |-> TRUE, list |-> << >>,     flag |-> FALSE],
           [has |-> TRUE, list |-> <<"Q1">>,  flag |-> FALSE],
           [has |-> TRUE, list |-> <<"Q1">>,  flag |-> TRUE] }
    [] worker = "PagePrimaryImage" ->
         { Absent,
           [has |-> TRUE, list |-> << >>,      flag |-> FALSE],
           [has |-> TRUE, list |-> <<"P.jpg">>, flag |-> FALSE] }
    [] worker = "PageFiles" ->
         { Absent,
           [has |-> TRUE, list |-> << >>,       flag |-> FALSE],
           [has |-> TRUE, list |-> <<"P.jpg">>, flag |-> FALSE],
           [has |-> TRUE, list |-> <<"Q.svg", "S.png", "R", "P.jpg">>,
            flag |-> FALSE] }
    [] worker = "RedirectsDF" ->
         { Absent,
           [has |-> FALSE, list |-> << >>,              flag |-> TRUE],
           [has |-> TRUE, list |-> <<LinkP>>,           flag |-> TRUE],
           [has |-> TRUE, list |-> <<LinkP>>,           flag |-> FALSE],
           [has |-> TRUE, list |-> <<LinkQ, LinkP>>,    flag |-> FALSE] }
    [] OTHER ->
         { Absent,
           [has |-> TRUE, list |-> << >>,               flag |-> FALSE],
           [has |-> TRUE, list |-> <<LinkP>>,           flag |-> FALSE],
           [has |-> TRUE, list |-> <<LinkQ, LinkP>>,    flag |-> FALSE] }

\* Whether the server can have the property for a page: a page that does
\* not exist has no links, images, redirects or page properties of its own,
\* but other pages may link to a missing title (the row m_PageInLinks
\* creates holds a list whatever the status, line 3057).
CarriesProperty(worker, page) ==
  \/ page.kind \in {"ok", "nopageid"}
  \/ worker = "PageInLinks" /\ page.kind = "missing"

\* The payloads of the pages of one response: at most one page carries the
\* property.
Contents(worker, pages) ==
  { c \in [1..Len(pages) -> Payloads(worker)] :
      /\ Cardinality({i \in 1..Len(pages) : c[i] # Absent}) <= 1
      /\ \A i \in 1..Len(pages) :
            c[i] # Absent => CarriesProperty(worker, pages[i]) }

\* The decoded responses reqMediaWiki may return for a batch.
MWResponses(worker, pages) ==
  { [hasQuery |-> TRUE, hasToken |-> TRUE, token |-> Token(worker, v),
     content |-> c] : v \in {"1", "2"}, c \in Contents(worker, pages) }
  \cup
  { [hasQuery |-> TRUE, hasToken |-> FALSE, token |-> << >>,
     content |-> c] : c \in Contents(worker, pages) }
  \cup
  { [hasQuery |-> FALSE, hasToken |-> TRUE, token |-> Token(worker, "1"),
     content |-> [i \in 1..Len(pages) |-> Absent]],
    [hasQuery |-> FALSE, hasToken |-> FALSE, token |-> << >>,
     content |-> [i \in 1..Len(pages) |-> Absent]] }

CaronMeta ==
  [hasNormalized |-> TRUE,
   normalized |-> << [fromencoded |-> "true", from |-> Quote(TitleD), to |-> TitleC],
                     [fromencoded |-> "false", from |-> TitleC, to |-> TitleU] >>,
   hasRedirects |-> TRUE,
   redirects |-> << [from |-> TitleU, to |-> Caron] >>]

CaseMeta ==
  [hasNormalized |-> TRUE,
   normalized |-> << [fromencoded |-> "false", from |-> <<"a">>, to |-> <<"A">>] >>,
   hasRedirects |-> FALSE, redirects |-> << >>]

Page(title, kind) == [title |-> title, kind |-> kind]

\* The batches: the checked titles, and the metadata and the pages the
\* server answers them with.
Batches ==
  { \* two titles of one page, one through normalization and a redirect
    [titles |-> <<TitleD, Caron>>, meta |-> CaronMeta,
     pages |-> << Page(Caron, "ok") >>],
    \* the pages of both the normalized title and the target are listed
    [titles |-> <<TitleD>>, meta |-> CaronMeta,
     pages |-> << Page(TitleU, "missing"), Page(Caron, "ok") >>],
    \* a normalized title and a missing page
    [titles |-> << <<"a">>, <<"M">> >>, meta |-> CaseMeta,
     pages |-> << Page(<<"A">>, "ok"), Page(<<"M">>, "missing") >>],
    \* a title without a page, a page of no title
    [titles |-> << <<"A">>, <<"Z">> >>, meta |-> NoMeta,
     pages |-> << Page(<<"X">>, "ok"), Page(<<"A">>, "nopageid") >>],
    \* an invalid title
    [titles |-> << <<"I">> >>, meta |-> NoMeta,
     pages |-> << Page(<<"I">>, "invalid") >>] }

InitPages ==
  /\ ChunksIdle /\ WDQSIdle /\ NormIdle /\ TopIdle /\ MWIdle
  /\ pworker \in Workers
  /\ \E b \in Batches :
       /\ ptitles = b.titles
       /\ pmeta = b.meta
       /\ ppages = b.pages
  /\ pquery = BaseQuery(pworker, ptitles)
  /\ poutput = << >>
  /\ preqs = << >>
  /\ presps = << >>
  /\ ppc = "request"
  /\ pout = "running"
  /\ pret = PyNone
  /\ perror = "none"

\* One turn of the loop: the request, and the response taken into the
\* output.
workerPage ==
  /\ ppc = "request"
  /\ Len(preqs) < MaxPages
  /\ \E j \in MWResponses(pworker, ppages) :
       LET st == TakeResponse(pworker, poutput, ptitles, pmeta, ppages, j, pquery)
           n == Len(preqs) + 1
       IN  /\ preqs' = Append(preqs, pquery)
           /\ presps' = Append(presps, j)
           /\ IF ~j.hasQuery
              THEN /\ ppc' = "done"
                   /\ perror' = NoQueryError(pworker)
                   /\ pout' = IF perror' = "none" THEN "returned" ELSE "raised"
                   /\ UNCHANGED <<pquery, poutput, pret>>
              ELSE IF st.err # "none"
              THEN /\ ppc' = "done"
                   /\ perror' = st.err
                   /\ pout' = "raised"
                   /\ UNCHANGED <<pquery, poutput, pret>>
              ELSE /\ poutput' = st.out
                   /\ IF LoopContinues(pworker, j, n)
                      THEN /\ pquery' = QueryUpdate(pquery, j.token)
                           /\ ppc' = "request"
                      ELSE /\ ppc' = "return"
                           /\ UNCHANGED pquery
                   /\ UNCHANGED <<pout, pret, perror>>
  /\ UNCHANGED <<pworker, ptitles, pmeta, ppages>>
  /\ UNCHANGED <<chunkVars, wdqsVars, normVars, topVars, mwVars>>

\* The return after the loop.
workerReturn ==
  /\ ppc = "return"
  /\ pret' = Finish(pworker, poutput)
  /\ pout' = "returned"
  /\ ppc' = "done"
  /\ UNCHANGED <<pworker, ptitles, pmeta, ppages, pquery, poutput, preqs,
                 presps, perror>>
  /\ UNCHANGED <<chunkVars, wdqsVars, normVars, topVars, mwVars>>

NextPages == workerPage \/ workerReturn

SpecPages == InitPages /\ [][NextPages]_vars

(***************************************************************************)
(* m_RedirectsDF on one batch of titles: the loop of the paginated         *)
(* workers, with its own records and its own return.                       *)
(***************************************************************************)
InitRedirectsDF ==
  /\ ChunksIdle /\ WDQSIdle /\ NormIdle /\ TopIdle /\ MWIdle
  /\ pworker = "RedirectsDF"
  /\ \E b \in Batches :
       /\ ptitles = b.titles
       /\ pmeta = b.meta
       /\ ppages = b.pages
  /\ pquery = BaseQuery(pworker, ptitles)
  /\ poutput = << >>
  /\ preqs = << >>
  /\ presps = << >>
  /\ ppc = "request"
  /\ pout = "running"
  /\ pret = PyNone
  /\ perror = "none"

\* The return after the loop (lines 2506-2511): a record with an empty
\* list gets None; a record without the key 'redirects' makes
\* len(v['redirects']) raise KeyError.
redirectsDFReturn ==
  /\ ppc = "return"
  /\ IF \E t \in DOMAIN poutput : ~poutput[t].hasList
     THEN /\ perror' = "KeyError"
          /\ pout' = "raised"
          /\ UNCHANGED pret
     ELSE /\ pret' = Table([t \in DOMAIN poutput |->
                              IF poutput[t].list = << >>
                              THEN [poutput[t] EXCEPT !.listNone = TRUE]
                              ELSE poutput[t]])
          /\ pout' = "returned"
          /\ UNCHANGED perror
  /\ ppc' = "done"
  /\ UNCHANGED <<pworker, ptitles, pmeta, ppages, pquery, poutput, preqs,
                 presps>>
  /\ UNCHANGED <<chunkVars, wdqsVars, normVars, topVars, mwVars>>

NextRedirectsDF == workerPage \/ redirectsDFReturn

SpecRedirectsDF == InitRedirectsDF /\ [][NextRedirectsDF]_vars

(***************************************************************************)
(* The top-level query functions on a list: the check of the list by       *)
(* checkEntities (lines 111-130) or checkTitles (lines 2038-2060), which   *)
(* is the first statement of every such function (lines 250, 336, 453,     *)
(* 548, 670, 775, 1612, 2255, 2340, 2431, 2576, 2669, 2767, 2854, 2950),   *)
(* then either one direct pass or, for a list longer than chunksize, the   *)
(* batches of doChunks, each a call of the same function on a slice.       *)
(* w_isValid (lines 453-460) stands for the functions on entities,         *)
(* m_Redirects (lines 2340-2347) for the functions on titles, and          *)
(* m_WikidataEntity (lines 2255-2262) is modelled for the chunk size it    *)
(* hands to doChunks.  A pass is modelled by the items of the one request  *)
(* it starts with: continuation requests and retries repeat the same       *)
(* items.                                                                  *)
(*                                                                         *)
(* An item is a sequence of characters.  The caller passes a list of items *)
(* or a single string: [isStr, items], items holding the one string when   *)
(* isStr is true.                                                          *)
(***************************************************************************)
\* Longest list handed to a top-level function.
MaxItems == 4
\* The most titles the MediaWiki API takes in one query: 50 in the source
\* (line 43), scaled down with the lists of the model.
MW_LIMIT == 2

\* A character that '\s' matches and strip() removes.
IsSpace(c) == c = " "

\* re.match('\s*$', x).
IsBlank(s) == \A i \in 1..Len(s) : IsSpace(s[i])

RECURSIVE LStrip(_)
LStrip(s) == IF s # << >> /\ IsSpace(s[1]) THEN LStrip(Tail(s)) ELSE s

RECURSIVE RStrip(_)
RStrip(s) ==
  IF s # << >> /\ IsSpace(s[Len(s)]) THEN RStrip(SubSeq(s, 1, Len(s) - 1))
  ELSE s

\* x.strip().
Strip(s) == RStrip(LStrip(s))

\* [x.strip() for x in items if not re.match('\s*$', x)], from item i on.
RECURSIVE StrippedFrom(_, _)
StrippedFrom(items, i) ==
  IF i > Len(items) THEN << >>
  ELSE IF IsBlank(items[i]) THEN StrippedFrom(items, i + 1)
  ELSE <<Strip(items[i])>> \o StrippedFrom(items, i + 1)

\* Variant of MatchesEntityId: the pattern is not anchored at the end.
MatchesEntityIdPrefix(q) ==
  Len(q) >= 2 /\ q[1] \in {"Q", "P"} /\ q[2] \in DigitChars

\* re.match(r'(?:Q|P)\d+$', q) is not None.
MatchesEntityId(q) ==
  /\ Len(q) >= 2
  /\ q[1] \in {"Q", "P"}
  /\ \A i \in 2..Len(q) : q[i] \in DigitChars

\* The characters of "#<>[]|{}".
ForbiddenChars == {"#", "<", ">", "[", "]", "|", "{", "}"}

\* The position of the first forbidden character of a title from position i
\* on, 0 if it has none.
RECURSIVE FirstForbidden(_, _)
FirstForbidden(title, i) ==
  IF i > Len(title) THEN 0
  ELSE IF title[i] \in ForbiddenChars THEN i
  ELSE FirstForbidden(title, i + 1)

\* The position of the first item from i on that the loop of the check
\* rejects, 0 if there is none.
RECURSIVE FirstRejected(_, _, _)
FirstRejected(kind, items, i) ==
  IF i > Len(items) THEN 0
  ELSE IF kind = "entities" /\ ~MatchesEntityId(items[i]) THEN i
  ELSE IF kind = "titles" /\ FirstForbidden(items[i], 1) # 0 THEN i
  ELSE FirstRejected(kind, items, i + 1)

\* Variant of Dedup: the last occurrence of an item is the one kept.
RECURSIVE DedupKeepLast(_)
DedupKeepLast(items) ==
  IF items = << >> THEN << >>
  ELSE IF \E i \in 2..Len(items) : items[i] = items[1]
       THEN DedupKeepLast(Tail(items))
       ELSE <<items[1]>> \o DedupKeepLast(Tail(items))

\* list(dict.fromkeys(items)).
RECURSIVE Dedup(_)
Dedup(items) ==
  IF items = << >> THEN << >>
  ELSE <<items[1]>> \o Dedup(SelectSeq(Tail(items), LAMBDA y : y # items[1]))

Checked(err, msg, list) == [err |-> err, msg |-> msg, list |-> list]

\* checkEntities(input) for kind "entities", checkTitles(input) for kind
\* "titles": the exception raised and what its message names, or the list
\* returned.
Check(kind, input) ==
  IF kind = "titles" /\ input.isStr /\ Strip(input.items[1]) = << >>
  THEN Checked("ValueError", << >>, << >>)
  ELSE LET stripped == StrippedFrom(input.items, 1)
           bad == FirstRejected(kind, stripped, 1)
       IN  IF stripped = << >> THEN Checked("ValueError", << >>, << >>)
           ELSE IF bad # 0 /\ kind = "entities"
           THEN Checked("ValueError", <<stripped[bad]>>, << >>)
           ELSE IF bad # 0
           THEN Checked("ValueError",
                        <<stripped[bad],
                          stripped[bad][FirstForbidden(stripped[bad], 1)]>>,
                        << >>)
           ELSE Checked("none", << >>, Dedup(stripped))

\* A list as the worker or the caller passes it on.
AsList(items) == [isStr |-> FALSE, items |-> items]

Validators == {"checkEntities", "checkTitles"}
TopFunctions == {"w_isValid", "m_Redirects", "m_WikidataEntity"}

\* Which check a function applies.
CheckKind(fun) ==
  IF fun \in {"checkEntities", "w_isValid"} THEN "entities" ELSE "titles"

\* The chunk size a function hands to doChunks: m_WikidataEntity passes
\* chunksize=MW_LIMIT (line 2262), the others the caller's chunksize.
EffectiveChunk(fun, chunk) ==
  IF fun = "m_WikidataEntity" THEN MW_LIMIT ELSE chunk

\* The chunksize of a call doChunks makes: doChunks passes its own chunksize
\* on (line 85, f(x_list, chunksize=chunksize, **arg)).
WorkerChunk(fun, chunk) == EffectiveChunk(fun, chunk)

\* The items of the model: entity ids and titles, well-formed, to be
\* stripped, malformed and blank.
EntityInputs ==
  { <<"Q", "1">>, <<"Q", "2">>, <<" ", "Q", "1", " ">>,
    <<"b", "a", "d", " ", "i", "d">>, <<"Q", "1", "x">>, << >>, <<" ">> }

TitleInputs ==
  { <<"A">>, <<"B">>, <<" ", "A">>, <<"A", "#">>, <<"[", "B", "|">>,
    << >>, <<" ">> }

ItemInputs(kind) == IF kind = "entities" THEN EntityInputs ELSE TitleInputs

\* What a caller passes: a list of up to MaxItems items, or one string.
Inputs(kind) ==
  { AsList(l) : l \in UNION {[1..n -> ItemInputs(kind)] : n \in 0..MaxItems} }
  \cup { [isStr |-> TRUE, items |-> <<s>>] : s \in ItemInputs(kind) }

InitTop ==
  /\ ChunksIdle /\ WDQSIdle /\ NormIdle /\ PagesIdle /\ MWIdle
  /\ tfun \in Validators \cup TopFunctions
  /\ tinput \in Inputs(CheckKind(tfun))
  /\ tchunk \in IF tfun \in Validators THEN {1} ELSE 1..MW_LIMIT
  /\ tpc = "call"
  /\ tlist = << >>
  /\ tagain = << >>
  /\ terror = "none"
  /\ tmsg = << >>
  /\ toffset = 0
  /\ tbatches = << >>
  /\ tsent = << >>

\* The check of the list, the first statement of the function.
topLevelCheck ==
  /\ tpc = "call"
  /\ LET r == Check(CheckKind(tfun), tinput)
     IN  /\ terror' = r.err
         /\ tmsg' = r.msg
         /\ tlist' = r.list
         /\ tpc' = IF r.err # "none" THEN "raised" ELSE "checked"
  /\ UNCHANGED <<tfun, tinput, tchunk, tagain, toffset, tbatches, tsent>>
  /\ UNCHANGED <<chunkVars, wdqsVars, normVars, pageVars, mwVars>>

\* The check applied to a list it returned.
checkAgain ==
  /\ tpc = "checked"
  /\ tfun \in Validators
  /\ LET r == Check(CheckKind(tfun), AsList(tlist))
     IN  /\ terror' = r.err
         /\ tmsg' = r.msg
         /\ tagain' = r.list
         /\ tpc' = IF r.err # "none" THEN "raised" ELSE "done"
  /\ UNCHANGED <<tfun, tinput, tchunk, tlist, toffset, tbatches, tsent>>
  /\ UNCHANGED <<chunkVars, wdqsVars, normVars, pageVars, mwVars>>

\* "if n > chunksize" is false: the function queries for the whole list.
topLevelDirect ==
  /\ tpc = "checked"
  /\ tfun \in TopFunctions
  /\ ~(Len(tlist) > tchunk)
  /\ tsent' = Append(tsent, tlist)
  /\ tpc' = "done"
  /\ UNCHANGED <<tfun, tinput, tchunk, tlist, tagain, terror, tmsg, toffset,
                 tbatches>>
  /\ UNCHANGED <<chunkVars, wdqsVars, normVars, pageVars, mwVars>>

\* "if n > chunksize" is true: the function returns doChunks(...).
topLevelChunks ==
  /\ tpc = "checked"
  /\ tfun \in TopFunctions
  /\ Len(tlist) > tchunk
  /\ toffset' = 0
  /\ tpc' = "chunks"
  /\ UNCHANGED <<tfun, tinput, tchunk, tlist, tagain, terror, tmsg, tbatches,
                 tsent>>
  /\ UNCHANGED <<chunkVars, wdqsVars, normVars, pageVars, mwVars>>

\* One turn of the loop of doChunks (lines 77-81): the next slice and the
\* call of the function on it, which checks the slice and, its length not
\* exceeding the chunksize it is given, queries for it.  An entry of tbatches
\* is the slice and whether the call hands it to doChunks again.
topLevelBatch ==
  /\ tpc = "chunks"
  /\ LET c == EffectiveChunk(tfun, tchunk)
         last == TruncDiv(Len(tlist), c)
         x_list == PySlice(tlist, toffset, toffset + c)
         r == Check(CheckKind(tfun), AsList(x_list))
         again == Len(r.list) > WorkerChunk(tfun, tchunk)
     IN  IF toffset > last * c \/ x_list = << >>
         THEN /\ tpc' = "done"
              /\ UNCHANGED <<toffset, tbatches, tsent, terror, tmsg>>
         ELSE /\ tbatches' = Append(tbatches, [items |-> x_list, again |-> again])
              /\ toffset' = toffset + c
              /\ terror' = r.err
              /\ tmsg' = r.msg
              /\ tsent' = IF r.err = "none" /\ ~again THEN Append(tsent, r.list)
                          ELSE tsent
              /\ tpc' = IF r.err # "none" THEN "raised"
                        ELSE IF again THEN "nested"
                        ELSE "chunks"
  /\ UNCHANGED <<tfun, tinput, tchunk, tlist, tagain>>
  /\ UNCHANGED <<chunkVars, wdqsVars, normVars, pageVars, mwVars>>

NextTop ==
  \/ topLevelCheck
  \/ checkAgain
  \/ topLevelDirect
  \/ topLevelChunks
  \/ topLevelBatch

SpecTop == InitTop /\ [][NextTop]_vars

(***************************************************************************)
(* reqMediaWiki: one request to the MediaWiki API, retried on              *)
(* 'ratelimited' errors.                                                   *)
(***************************************************************************)
\* The largest value of the attempts argument in the model.
MaxAttempts == 3

\* The unit of the sleep after a 'ratelimited' error, in seconds.
RetryUnit == 60

\* What a request can bring: a response without 'error', a response with
\* the error code 'ratelimited' or with another code, or an HTTP status
\* that makes raise_for_status() raise.
MWOutcomes == {"ok", "ratelimited", "badtoken", "http500"}

\* "if nt <= attempts" with an off-by-one, and as the code has it.
MayRetryBelow(n, a) == n < a

MayRetry(n, a) == n <= a

\* The duration slept before the retry after turn n of the loop,
\* sleep(60*nt).
RetrySleep(n) == RetryUnit * n

InitMW ==
  /\ ChunksIdle /\ WDQSIdle /\ NormIdle /\ PagesIdle /\ TopIdle
  /\ mwQuery \in [isDict : BOOLEAN, titles : 0..(MW_LIMIT + 1)]
  /\ mwProject \in {<<"e", "n">>, <<" ">>, << >>}
  /\ mwMethod \in {"GET", "POST", "PUT"}
  /\ attempts \in 0..MaxAttempts
  /\ mwNt = 0
  /\ mwpc = "call"
  /\ mwResps = << >>
  /\ sleeps = << >>
  /\ mwError = "none"

\* The tests before the loop: the query is a dict, the project is not
\* blank, the query has no more than MW_LIMIT titles.
reqMediaWikiCall ==
  /\ mwpc = "call"
  /\ IF ~mwQuery.isDict \/ IsBlank(mwProject) \/ mwQuery.titles > MW_LIMIT
     THEN /\ mwpc' = "raised"
          /\ mwError' = "ValueError"
     ELSE /\ mwpc' = "loop"
          /\ UNCHANGED mwError
  /\ UNCHANGED <<mwQuery, mwProject, mwMethod, attempts, mwNt, mwResps,
                 sleeps>>
  /\ UNCHANGED <<chunkVars, wdqsVars, normVars, pageVars, topVars>>

\* One turn of "while True": the request, its response, and the sleep
\* before the next turn.
reqMediaWikiAttempt ==
  /\ mwpc = "loop"
  /\ mwNt' = mwNt + 1
  /\ IF mwMethod \notin {"GET", "POST"}
     THEN /\ mwpc' = "raised"
          /\ mwError' = "ValueError"
          /\ UNCHANGED <<mwResps, sleeps>>
     ELSE \E r \in MWOutcomes :
            /\ mwResps' = Append(mwResps, r)
            /\ CASE r = "http500" ->
                      /\ mwpc' = "raised"
                      /\ mwError' = "HTTPError"
                      /\ UNCHANGED sleeps
                 [] r = "ok" ->
                      /\ mwpc' = "returned"
                      /\ UNCHANGED <<mwError, sleeps>>
                 [] r = "ratelimited" /\ MayRetry(mwNt', attempts) ->
                      /\ sleeps' = Append(sleeps, RetrySleep(mwNt'))
                      /\ mwpc' = "loop"
                      /\ UNCHANGED mwError
                 [] OTHER ->
                      /\ mwpc' = "raised"
                      /\ mwError' = "NameError"
                      /\ UNCHANGED sleeps
  /\ UNCHANGED <<mwQuery, mwProject, mwMethod, attempts>>
  /\ UNCHANGED <<chunkVars, wdqsVars, normVars, pageVars, topVars>>

NextMW == reqMediaWikiCall \/ reqMediaWikiAttempt

SpecMW == InitMW /\ [][NextMW]_vars

(***************************************************************************)
(* Properties of doChunks.                                                 *)
(***************************************************************************)
CeilDiv(n, c) == (n + c - 1) \div c
NoDup(s) == \A i, j \in 1..Len(s) : i # j => s[i] # s[j]
ChunkDone == pc = "done"
\* f returned None for one of the batches it was invoked with.
NoneSeen == \E j \in 1..Len(calls) : Worker(calls[j], shape, mode, poison) = PyNone
\* doChunks returned an aggregate (not None).
ReturnedAggregate == ChunkDone /\ outcome = "returned" /\ retval # PyNone
\* What f returned for the j-th batch it was invoked with.
BatchResult(j) == Worker(calls[j], shape, mode, poison)

RECURSIVE FlattenCalls(_)
FlattenCalls(n) == IF n = 0 THEN << >> ELSE FlattenCalls(n - 1) \o calls[n]

\* The overwrite-union of the dicts B(1), ..., B(n): a key has the value of
\* the last dict that holds it.
OverwriteUnion(B(_), n) ==
  [key \in UNION {DOMAIN B(j) : j \in 1..n} |->
     B(CHOOSE j \in 1..n : key \in DOMAIN B(j)
                           /\ \A i \in (j + 1)..n : key \notin DOMAIN B(i))[key]]

\* The rows of the tables T(1), ..., T(n), in that order.
RECURSIVE ConcatRows(_, _)
ConcatRows(T(_), n) == IF n = 0 THEN << >> ELSE ConcatRows(T, n - 1) \o T(n)

\* C1: for len(x) >= 1 and chunksize >= 1, the k-th invocation of the worker
\* (k = 0, 1, ...) receives exactly x[k*chunksize : (k+1)*chunksize], a batch
\* of 1..chunksize items; there are never more than ceil(len(x)/chunksize)
\* invocations, and a run in which no batch yields None ends after exactly
\* that many, the batches concatenating to x.
C1_Batching ==
  (Len(x) >= 1 /\ chunksize >= 1) =>
    /\ \A j \in 1..Len(calls) :
         /\ calls[j] = SubSeq(x, (j - 1) * chunksize + 1,
                              Min(j * chunksize, Len(x)))
         /\ Len(calls[j]) \in 1..chunksize
    /\ Len(calls) <= CeilDiv(Len(x), chunksize)
    /\ (ChunkDone /\ ~NoneSeen) =>
         /\ Len(calls) = CeilDiv(Len(x), chunksize)
         /\ FlattenCalls(Len(calls)) = x

\* The example of the claim: ['Q1','Q2','Q3'] with chunksize 2.
C1_Witness ==
  /\ ChunkDone /\ outcome = "returned"
  /\ x = <<1, 2, 3>> /\ chunksize = 2
  /\ calls = << <<1, 2>>, <<3>> >>

\* C2: chunk-invariance.  For a worker returning a mapping whose entry for
\* an item depends on that item only, a duplicate-free list and a chunk size
\* >= 1 for which no batch yields None, doChunks returns the mapping the
\* worker yields for the whole list in one batch; the returned key set and
\* values therefore do not depend on the chunk size.
C2_ChunkInvariance ==
  (ReturnedAggregate /\ shape = "dict" /\ mode = "item" /\ NoDup(x)
     /\ chunksize >= 1) =>
    /\ retval = WorkerDict(x, mode)
    /\ \A c2 \in 1..MaxChunk :
         retval.m = OverwriteUnion(
                      LAMBDA j : WorkerDict(PySlice(x, (j - 1) * c2, j * c2), mode).m,
                      CeilDiv(Len(x), c2))

\* Several batches were needed, and another chunk size would have needed
\* a different number of them.
C2_Witness ==
  /\ ReturnedAggregate /\ shape = "dict" /\ mode = "item" /\ NoDup(x)
  /\ chunksize = 2 /\ Len(x) = 3 /\ Len(calls) = 2

\* C3: fail-fast.  When the worker yields None for a batch, that batch is
\* the last one the worker is ever invoked with, and doChunks has returned
\* None: nothing merged from the earlier batches reaches the caller.
C3_FailFast ==
  \A j \in 1..Len(calls) :
    BatchResult(j) = PyNone =>
      /\ j = Len(calls)
      /\ ChunkDone /\ outcome = "returned" /\ retval = PyNone

\* A batch after the first fails while batches remain.
C3_Witness ==
  /\ ChunkDone /\ NoneSeen
  /\ Len(calls) >= 2
  /\ chunksize >= 1 /\ Len(calls) * chunksize < Len(x)
  /\ output # Unbound

\* C4: mapping merge.  When every batch yields a dict, the returned dict has
\* the union of the batches' key sets, and a key has the value of the latest
\* batch (in list order) that produced it.
C4_MappingMerge ==
  (ReturnedAggregate /\ shape = "dict") =>
    /\ DOMAIN retval.m = UNION {DOMAIN BatchResult(j).m : j \in 1..Len(calls)}
    /\ retval.m = OverwriteUnion(LAMBDA j : BatchResult(j).m, Len(calls))

\* A key is produced by two batches with different values.
C4_Witness ==
  /\ ReturnedAggregate /\ shape = "dict"
  /\ \E i, j \in 1..Len(calls) : \E key \in DOMAIN BatchResult(i).m :
       /\ i < j
       /\ key \in DOMAIN BatchResult(j).m
       /\ BatchResult(i).m[key] # BatchResult(j).m[key]

\* C5: table merge.  When every batch yields a table, the returned table is
\* the rows of batch 0, then those of batch 1, and so on, each batch's rows
\* in the order the worker produced them; no row is dropped, deduplicated
\* or reordered.
C5_TableMerge ==
  (ReturnedAggregate /\ shape = "table") =>
    retval.rows = ConcatRows(LAMBDA j : BatchResult(j).rows, Len(calls))

\* Several batches, and the same row produced twice.
C5_Witness ==
  /\ ReturnedAggregate /\ shape = "table"
  /\ Len(calls) >= 2
  /\ \E i, j \in 1..Len(retval.rows) : i # j /\ retval.rows[i] = retval.rows[j]

\* C6: tuple merge.  When every batch yields a pair, the returned pair has
\* as second element the overwrite-union of the batches' second dicts, and
\* as first element the overwrite-union of the first elements when they are
\* dicts, or their concatenation in batch order when they are tables.
C6_TupleMerge ==
  (ReturnedAggregate /\ shape \in {"tuple_dict", "tuple_table"}) =>
    /\ retval.kind = "tuple"
    /\ retval.d1.m = OverwriteUnion(LAMBDA j : BatchResult(j).d1.m, Len(calls))
    /\ shape = "tuple_dict" =>
         retval.d0.m = OverwriteUnion(LAMBDA j : BatchResult(j).d0.m, Len(calls))
    /\ shape = "tuple_table" =>
         retval.d0.rows = ConcatRows(LAMBDA j : BatchResult(j).d0.rows, Len(calls))

\* Pairs of (table, dict) from several batches, a key of the second dict
\* being produced twice with different values.
C6_Witness ==
  /\ ReturnedAggregate /\ shape = "tuple_table"
  /\ Len(calls) >= 2
  /\ \E key \in DOMAIN BatchResult(1).d1.m :
       /\ key \in DOMAIN BatchResult(2).d1.m
       /\ BatchResult(1).d1.m[key] # BatchResult(2).d1.m[key]

\* C7: called with an empty list and chunksize >= 1, doChunks invokes the
\* worker zero times and returns to the caller without raising an error.
C7_EmptyListReturns ==
  (ChunkDone /\ Len(x) = 0 /\ chunksize >= 1) =>
    (outcome = "returned" /\ calls = << >>)

RECURSIVE Pow10(_)
Pow10(n) == IF n = 0 THEN 1 ELSE 10 * Pow10(n - 1)

\* The number a decimal numeral denotes: the sum of its digits' place values.
RECURSIVE PlaceValueSum(_, _)
PlaceValueSum(chars, i) ==
  IF i > Len(chars) THEN 0
  ELSE DigitValue(chars[i]) * Pow10(Len(chars) - i) + PlaceValueSum(chars, i + 1)

\* The tick at which the whole second holding tick t began.
SecondStart(t) == t - (t % TicksPerSec)

\* C9: on a 429 response whose Retry-After is a digit string t <= 600,
\* reqWDQS sleeps exactly t seconds and then sends the same request again;
\* when the header is an HTTP-date, a sleep lasts the date minus the current
\* time in whole seconds.  Every request after the first follows a sleep and
\* is sent when that sleep has elapsed, not before.
C9_RetryAfterSleep ==
  /\ \A j \in 1..Len(backoffs) :
       LET b == backoffs[j]
       IN  /\ (IsDigits(b.hdr.chars) /\ PlaceValueSum(b.hdr.chars, 1) <= MaxWait) =>
                (b.slept /\ b.wait = PlaceValueSum(b.hdr.chars, 1))
           /\ (b.slept /\ b.hdr.parsable) =>
                b.wait * TicksPerSec = b.hdr.epoch * TicksPerSec - SecondStart(b.at)
           /\ (b.slept /\ Len(requests) > j) =>
                /\ requests[j + 1].at = b.at + b.wait * TicksPerSec
                /\ requests[j + 1].req = requests[j].req
  /\ \A j \in 2..Len(requests) :
       /\ Len(backoffs) >= j - 1
       /\ backoffs[j - 1].slept
       /\ requests[j].req = requests[1].req

\* A wait of 120 seconds from a digit string, then one from an HTTP-date
\* read in the middle of a second, each followed by the request again.
C9_Witness ==
  /\ Len(requests) = 3 /\ Len(backoffs) >= 2
  /\ backoffs[1].hdr.chars = <<"1", "2", "0">> /\ backoffs[1].slept
  /\ backoffs[2].hdr.parsable /\ backoffs[2].slept /\ backoffs[2].wait = 120
  /\ backoffs[2].at % TicksPerSec # 0

\* C10: a 429 response whose computed wait is strictly greater than 600
\* seconds ends reqWDQS with an error, with no sleep and no further request;
\* a wait of exactly 600 seconds is slept and the request is sent again.
C10_WaitLimit ==
  \A j \in 1..Len(backoffs) :
    LET b == backoffs[j]
    IN  /\ b.wait > MaxWait =>
             /\ ~b.slept
             /\ j = Len(backoffs) /\ Len(requests) = j
             /\ wpc = "done" /\ woutcome = "raised"
             /\ clock = b.at
        /\ b.wait = MaxWait =>
             /\ b.slept
             /\ (Len(requests) = j) => (wpc = "send" /\ woutcome = "running")
             /\ (Len(requests) > j) =>
                  requests[j + 1].at = b.at + MaxWait * TicksPerSec

\* A wait of exactly 600 seconds was slept, then one of 601 was refused.
C10_Witness ==
  /\ Len(backoffs) = 2 /\ Len(requests) = 2
  /\ backoffs[1].wait = MaxWait /\ backoffs[1].slept
  /\ backoffs[2].wait = MaxWait + 1 /\ ~backoffs[2].slept
  /\ wpc = "done" /\ woutcome = "raised"

\* C11: reqWDQS does not bound the number of retries.  Every 429 response
\* whose wait is <= 600 is slept and followed by the request again, so n
\* such responses and then another response make n + 1 requests; reqWDQS
\* ends only at a response that is not a 429, or at a 429 whose wait is
\* > 600.
C11_RetriesUnbounded ==
  /\ \A j \in 1..Len(backoffs) :
       backoffs[j].wait <= MaxWait =>
         /\ backoffs[j].slept
         /\ backoffs[j].wait = RetryWait(backoffs[j].hdr, backoffs[j].at)
  /\ (wpc = "done" /\ Len(requests) >= 1 /\ resp.status = TooManyRequests
        /\ Len(backoffs) = Len(requests)) =>
       backoffs[Len(backoffs)].wait > MaxWait
  /\ (wpc = "done" /\ Len(requests) >= 1 /\ resp.status # TooManyRequests) =>
       /\ Len(requests) = Len(backoffs) + 1
       /\ \A j \in 1..Len(backoffs) : backoffs[j].slept

\* The media type reqWDQS asks for with each format (lines 158-163).
RequestedType(fmt) ==
  IF fmt = "json" THEN "application/sparql-results+json"
  ELSE IF fmt = "xml" THEN "application/sparql-results+xml"
  ELSE "text/csv"

\* C12: reqWDQS returns a body only when the response's Content-Type is the
\* one of the requested format, and the body is in that representation; a
\* successful response with another Content-Type ends in an error whose
\* message names the requested format and the response's type.
C12_ContentTypeChecked ==
  /\ woutcome = "returned" =>
       /\ resp.status < 400
       /\ Len(resp.ctype) >= 1 /\ resp.ctype[1] = RequestedType(format)
       /\ wret.kind = format /\ wret.of = resp.ctype
  /\ (wpc = "done" /\ Len(requests) >= 1 /\ resp.status = 200
        /\ Len(resp.ctype) >= 1 /\ resp.ctype[1] # RequestedType(format)) =>
       /\ woutcome = "raised" /\ werror = "ValueError"
       /\ wmsg = <<format, resp.ctype>>

\* csv was requested and the server answered 200 with SPARQL JSON.
C12_Witness ==
  /\ wpc = "done" /\ format = "csv" /\ resp.status = 200
  /\ resp.ctype = <<"application/sparql-results+json">>
  /\ woutcome = "raised" /\ wmsg = <<"csv", resp.ctype>>

(***************************************************************************)
(* Properties of normalizedTitle.                                          *)
(***************************************************************************)
NormDone == npc = "done"
MinOf(S) == CHOOSE m \in S : \A n \in S : m <= n
\* The orders the n entries of a list can come in.
Orders(n) == {f \in [1..n -> 1..n] : \A i, j \in 1..n : i # j => f[i] # f[j]}
\* q with its 'normalized' list in the order f.
Reordered(q, f) ==
  [q EXCEPT !.normalized = [i \in 1..Len(q.normalized) |-> q.normalized[f[i]]]]

\* C17: the from-encoded rule is applied before the plain rule, and the
\* plain rule at most once; the value reached is the same whatever the
\* order of the entries in the 'normalized' list.
C17_OrderIndependent ==
  NormDone =>
    \A f \in Orders(Len(nq.normalized)) :
      NormalizedValue(ntitle, Reordered(nq, f)) = nanorm

\* No entry of the 'normalized' list applies to the original title.
NoEntryMatches ==
  \A i \in 1..Len(nq.normalized) :
    /\ nq.normalized[i].from # ntitle
    /\ ~(nq.normalized[i].fromencoded = "true"
         /\ nq.normalized[i].from = Quote(ntitle))

\* C18: normalized is None exactly when the value reached by the
\* normalization steps equals the original title (so whenever there is no
\* 'normalized' list or no entry matches), and is that value otherwise; it
\* is never the original title.
C18_NormalizedOrNone ==
  NormDone =>
    /\ nresult[1] = (IF nanorm = ntitle THEN NoTitle ELSE nanorm)
    /\ nresult[1] # ntitle
    /\ (~nq.hasNormalized \/ NoEntryMatches) => nresult[1] = NoTitle

\* Entries were applied, and the value reached is the original title again.
C18_Witness ==
  /\ NormDone /\ ~NoEntryMatches
  /\ nanorm = ntitle /\ nresult[1] = NoTitle

\* C19: the redirects are matched with the normalized value when the
\* normalization changed the title and with the original title otherwise;
\* target is the 'to' of the first entry whose 'from' is that key, None when
\* there is none.
C19_RedirectResolution ==
  NormDone =>
    LET key  == IF nresult[1] # NoTitle THEN nresult[1] ELSE ntitle
        hits == {i \in 1..Len(nq.redirects) : nq.redirects[i].from = key}
    IN  nresult[2] = (IF hits = {} THEN NoTitle ELSE nq.redirects[MinOf(hits)].to)

\* The title was normalized; the redirects hold an entry for the original
\* title first and one for the normalized title after it.
C19_Witness ==
  /\ NormDone /\ nresult[1] # NoTitle
  /\ Len(nq.redirects) = 2
  /\ nq.redirects[1].from = ntitle
  /\ nq.redirects[2].from = nresult[1]
  /\ nresult[2] = nq.redirects[2].to

(***************************************************************************)
(* Properties of the paginated workers.                                    *)
(***************************************************************************)
\* The batch ran to its end and the worker returned its result.
Completed == pout = "returned" /\ pret.kind # "None"

\* The key -> row mapping of a returned result.
RowsOf(ret) == IF ret.kind = "dict" THEN ret.m ELSE ret.rows

\* The title the page of a requested title is listed under: the redirect
\* target if there is one, else the normalized title if there is one, else
\* the title itself.
ResolvedTitle(title) ==
  LET nt == NormalizedTitle(title, pmeta)
  IN  CASE nt[2] # NoTitle -> nt[2]
        [] nt[2] = NoTitle /\ nt[1] # NoTitle -> nt[1]
        [] OTHER -> title

\* The pages of the batch listed under a title.
PagesTitled(key) == {p \in 1..Len(ppages) : ppages[p].title = key}

\* The items response i delivered for the pages p, p+1, ... listed under
\* key, in page order.
RECURSIVE DeliveredFrom(_, _, _)
DeliveredFrom(i, key, p) ==
  IF p > Len(ppages) THEN << >>
  ELSE (IF ppages[p].title = key /\ presps[i].content[p].has
        THEN PageItems(pworker, presps[i].content[p]) ELSE << >>)
       \o DeliveredFrom(i, key, p + 1)

\* The items the first n responses delivered for key, in arrival order.
RECURSIVE DeliveredUpTo(_, _)
DeliveredUpTo(n, key) ==
  IF n = 0 THEN << >>
  ELSE DeliveredUpTo(n - 1, key) \o DeliveredFrom(n, key, 1)

IsSuffix(s, t) ==
  /\ Len(s) <= Len(t)
  /\ \A i \in 1..Len(s) : s[i] = t[Len(t) - Len(s) + i]

TokenCount(rs) == Cardinality({i \in 1..Len(rs) : rs[i].hasToken})

\* The workers that keep a list per title.
ListWorkers == {"Redirects", "PageFiles", "PageOutLinks", "PageInLinks"}

\* The number of requests of a completed batch is 1 plus the number of
\* responses with a token, and only the last response has no token.
RequestCount ==
  (pworker \in Paginated /\ Completed) =>
    /\ Len(preqs) = 1 + TokenCount(presps)
    /\ Len(presps) = Len(preqs)
    /\ \A i \in 1..Len(presps) : presps[i].hasToken <=> i < Len(presps)

\* The result of a completed batch holds what every response delivered:
\* the lists end with the delivered items in arrival order, and a row of
\* m_WikidataEntity holds the entity a response delivered for its page.
RecordsHeld ==
  (pworker \in Paginated /\ Completed) =>
    \A t \in DOMAIN RowsOf(pret) :
      LET row == RowsOf(pret)[t]
          key == ResolvedTitle(t)
      IN  /\ (pworker \in ListWorkers /\ ~row.listNone) =>
                IsSuffix(DeliveredUpTo(Len(presps), key), row.list)
          /\ pworker = "WikidataEntity" =>
                \A i \in 1..Len(presps) : \A p \in PagesTitled(key) :
                  EntityItem(ppages[p], presps[i].content[p]) # NoValue
                    => row.value = EntityItem(ppages[p], presps[i].content[p])

\* C13: in the paginated workers (m_WikidataEntity, m_Redirects,
\* m_PageFiles, m_PageOutLinks, m_PageInLinks) the number of requests sent
\* for one batch is 1 plus the number of responses that carried a
\* 'continue' token, the responses are consumed in arrival order, the loop
\* stops at the first response without a token, and the result holds the
\* records of all the responses.
C13_ContinuationDraining == RequestCount /\ RecordsHeld

\* The parameters every worker sends, which no token names.
FixedParams == {"titles", "prop", "action", "format", "formatversion"}

\* C14: after a response carrying a continuation token, the parameters of
\* the next request are the previous request's parameters with every field
\* of the token written in (a token field overrides a parameter of the same
\* name), and the parameters the token does not name, 'titles', 'prop' and
\* 'action' among them, are the same in every request of the batch.
C14_TokenEcho ==
  /\ \A i \in 1..(Len(preqs) - 1) :
       LET before == preqs[i]
           after == preqs[i + 1]
           token == presps[i].token
       IN  /\ presps[i].hasToken
           /\ DOMAIN after = DOMAIN before \cup DOMAIN token
           /\ \A f \in DOMAIN token : after[f] = token[f]
           /\ \A f \in DOMAIN before \ DOMAIN token : after[f] = before[f]
  /\ \A i \in 1..Len(preqs) :
       /\ FixedParams \subseteq DOMAIN preqs[i]
       /\ \A f \in DOMAIN preqs[1] : preqs[i][f] = preqs[1][f]
  /\ ppc = "request" /\ presps # << >> =>
       pquery = [f \in DOMAIN preqs[Len(preqs)] \cup DOMAIN presps[Len(presps)].token |->
                   IF f \in DOMAIN presps[Len(presps)].token
                   THEN presps[Len(presps)].token[f]
                   ELSE preqs[Len(preqs)][f]]

\* Three requests were sent, and the second token gave the module's field
\* another value than the first.
C14_Witness ==
  /\ Len(preqs) = 3
  /\ presps[1].token[ContinueField(pworker)] # presps[2].token[ContinueField(pworker)]
  /\ preqs[3][ContinueField(pworker)] = presps[2].token[ContinueField(pworker)]
  /\ preqs[2][ContinueField(pworker)] = presps[1].token[ContinueField(pworker)]

\* Every response so far had a 'query' part and was taken without an
\* exception.
AllTaken == perror = "none" /\ \A i \in 1..Len(presps) : presps[i].hasQuery

\* C15: the continuation loop has no iteration cap: as long as every
\* response carries a token the worker is about to send another request,
\* however many it has sent, and it leaves the loop right after the first
\* response without a token.
C15_NoIterationCap ==
  (pworker \in Paginated /\ AllTaken) =>
    /\ ppc = "request" <=> \A i \in 1..Len(presps) : presps[i].hasToken
    /\ ppc \in {"return", "done"} =>
         /\ presps # << >>
         /\ ~presps[Len(presps)].hasToken
         /\ \A i \in 1..(Len(presps) - 1) : presps[i].hasToken
         /\ Len(preqs) = Len(presps)

\* Every response of the longest run the model follows carried a token, and
\* the worker is still about to send a request.
C15_Witness ==
  /\ pworker \in Paginated
  /\ AllTaken
  /\ Len(presps) = MaxPages
  /\ \A i \in 1..Len(presps) : presps[i].hasToken
  /\ ppc = "request"

\* The sum of the per-response counts of key over the first n responses.
RECURSIVE CountUpTo(_, _)
CountUpTo(n, key) ==
  IF n = 0 THEN 0
  ELSE CountUpTo(n - 1, key) + Len(DeliveredFrom(n, key, 1))

RowOfPage(row, page, key) ==
  CASE pworker = "Redirects" ->
         IF page.kind \in {"invalid", "missing"} THEN row.listNone
         ELSE ~row.listNone /\ row.list[1] = key
    [] pworker = "WikidataEntity" ->
         IF page.kind \in {"invalid", "missing"} THEN row.status = page.kind
         ELSE row.status \in {"no_pageprops", "no_wikibase_item",
                              "disambiguation", "OK"}
    [] OTHER -> row.status = PageStatus(page)

C21_SharedPage ==
  (pworker = "WikidataEntity" /\ Completed) =>
    \A i, m \in 1..Len(ptitles) :
      (/\ ptitles[i] # ptitles[m]
       /\ ResolvedTitle(ptitles[i]) = ResolvedTitle(ptitles[m])
       /\ PagesTitled(ResolvedTitle(ptitles[i])) # {}) =>
         /\ ptitles[i] \in DOMAIN RowsOf(pret)
         /\ ptitles[m] \in DOMAIN RowsOf(pret)
         /\ RowsOf(pret)[ptitles[i]].status = RowsOf(pret)[ptitles[m]].status
         /\ RowsOf(pret)[ptitles[i]].value = RowsOf(pret)[ptitles[m]].value

\* Two titles of one page, one of them normalized and redirected, both got
\* the entity of the page.
C21_Witness ==
  /\ pworker = "WikidataEntity"
  /\ Completed
  /\ ptitles = <<TitleD, Caron>>
  /\ RowsOf(pret)[TitleD].target = Caron
  /\ RowsOf(pret)[Caron].target = NoTitle
  /\ RowsOf(pret)[TitleD].status = "OK"
  /\ RowsOf(pret)[TitleD].value = "Q1"
  /\ RowsOf(pret)[Caron].value = "Q1"

(***************************************************************************)
(* Properties of checkEntities, checkTitles and the functions on a list    *)
(***************************************************************************)

\* An entity id is well formed when it is Q or P followed by digits only.
WellFormedEntity(s) ==
  /\ Len(s) >= 2
  /\ s[1] \in {"Q", "P"}
  /\ \A i \in 2..Len(s) : s[i] \in DigitChars

\* A title is well formed when it has none of # < > [ ] { } |.
WellFormedTitle(s) ==
  \A i \in 1..Len(s) : s[i] \notin {"#", "<", ">", "[", "]", "{", "}", "|"}

Offending(item) ==
  /\ ~IsBlank(item)
  /\ IF CheckKind(tfun) = "entities" THEN ~WellFormedEntity(Strip(item))
     ELSE ~WellFormedTitle(Strip(item))

OffendingAt == {i \in 1..Len(tinput.items) : Offending(tinput.items[i])}

\* C22: when some non-blank item of the list is malformed, the function
\* raises an error that names an offending item (the first one), and no
\* request has been sent and no batch has run.
C22_ValidationFirst ==
  (tpc # "call" /\ OffendingAt # {}) =>
    /\ tpc = "raised"
    /\ terror = "ValueError"
    /\ tsent = << >>
    /\ tbatches = << >>
    /\ tmsg # << >>
    /\ \E i \in OffendingAt :
         /\ tmsg[1] = Strip(tinput.items[i])
         /\ \A j \in OffendingAt : i <= j

C22_Witness ==
  /\ tfun = "w_isValid"
  /\ tinput.items = << <<"Q", "1">>, <<"Q", "1">>, <<"Q", "2">>,
                       <<"b", "a", "d", " ", "i", "d">> >>
  /\ tpc = "raised"
  /\ terror = "ValueError"
  /\ tmsg = << <<"b", "a", "d", " ", "i", "d">> >>
  /\ tsent = << >>
  /\ tbatches = << >>

\* The non-blank items of the input, trimmed, in the order given.
Trimmed ==
  LET kept == SelectSeq(tinput.items, LAMBDA s : ~IsBlank(s))
  IN  [i \in 1..Len(kept) |-> Strip(kept[i])]

FirstIndex(s, e) ==
  CHOOSE i \in 1..Len(s) : s[i] = e /\ \A j \in 1..(i - 1) : s[j] # e

Elements(s) == {s[i] : i \in 1..Len(s)}

\* C23: the list a check returns has no duplicates, holds the items of the
\* input in the order of their first occurrences, and checking it again
\* returns the same list without an error.
C23_DedupFirstIdempotent ==
  (tfun \in Validators /\ tlist # << >>) =>
    /\ \A i, j \in 1..Len(tlist) : tlist[i] = tlist[j] => i = j
    /\ Elements(tlist) = Elements(Trimmed)
    /\ \A i, j \in 1..Len(tlist) :
         i < j => FirstIndex(Trimmed, tlist[i]) < FirstIndex(Trimmed, tlist[j])
    /\ tpc # "checked" => (tpc = "done" /\ terror = "none" /\ tagain = tlist)

C23_Witness ==
  /\ tfun = "checkEntities"
  /\ tinput.items = << <<"Q", "1">>, <<"Q", "2">>, <<" ", "Q", "1", " ">> >>
  /\ tpc = "done"
  /\ tlist = << <<"Q", "1">>, <<"Q", "2">> >>
  /\ tagain = tlist

\* C24: a list with a blank item together with valid items is rejected by
\* the check.
C24_BlankRejected ==
  (/\ tfun \in Validators
   /\ tpc # "call"
   /\ ~tinput.isStr
   /\ \E i \in 1..Len(tinput.items) : IsBlank(tinput.items[i])
   /\ \E i \in 1..Len(tinput.items) : ~IsBlank(tinput.items[i])
   /\ OffendingAt = {}) =>
    terror = "ValueError"

(***************************************************************************)
(* Properties of the paginated workers on a response without 'query'       *)
(***************************************************************************)

\* C25: a worker that received a response without 'query' ends in an error
\* raised to its caller; it does not return.
C25_MissingQueryFatal ==
  (ppc = "done" /\ \E i \in 1..Len(presps) : ~presps[i].hasQuery) =>
    pout = "raised"

(***************************************************************************)
(* Properties of reqMediaWiki                                              *)
(***************************************************************************)
AllRatelimited == \A i \in 1..Len(mwResps) : mwResps[i] = "ratelimited"

C27_ConstantInterval ==
  \A i \in 1..Len(sleeps) : sleeps[i] = RetryUnit

(***************************************************************************)
(* Properties of m_RedirectsDF                                             *)
(***************************************************************************)

\* C28: when m_RedirectsDF returns after several responses, the record of
\* a title with a page still has the columns set from the first response,
\* and its list ends with the redirects of all the responses, in order.
C28_RecordKept ==
  (pworker = "RedirectsDF" /\ pout = "returned" /\ pret.kind = "table") =>
    \A t \in DOMAIN pret.rows :
      PagesTitled(ResolvedTitle(t)) # {} =>
        /\ pret.rows[t].hasStatus
        /\ IsSuffix(DeliveredUpTo(Len(presps), ResolvedTitle(t)),
                    pret.rows[t].list)

(***************************************************************************)
(* Properties of the chunked requests of the functions on titles           *)
(***************************************************************************)

\* C29: every request of a function on titles carries at most chunksize
\* titles, and no call doChunks makes hands its slice to doChunks again.
C29_ChunkBound ==
  tfun \in {"m_Redirects", "m_WikidataEntity"} =>
    /\ \A i \in 1..Len(tsent) : Len(tsent[i]) <= tchunk
    /\ \A i \in 1..Len(tbatches) : ~tbatches[i].again

(***************************************************************************)
(* Properties of the durations reqWDQS sleeps                              *)
(***************************************************************************)

\* C30: every duration reqWDQS passes to sleep, that is every computed
\* wait that is not more than MaxWait, lies in 0..MaxWait.
C30_SleepInRange ==
  \A j \in 1..Len(backoffs) :
    ~WaitTooLong(backoffs[j].wait) => backoffs[j].wait \in 0..MaxWait

=============================================================================
